---- MODULE Spec2Model ----
(***************************************************************************)
(* Verifiable Credential Barcodes (spruceid/w3c-vc-barcodes).              *)
(*                                                                         *)
(* Bytes are the integers 0..255, byte strings are sequences of bytes, and *)
(* a reader is a byte string with a 1-based position.  An io::Result is a  *)
(* record [ok, err, val]; an Option is a sequence of length 0 or 1.        *)
(***************************************************************************)
EXTENDS Integers, Sequences, FiniteSets, TLC

VARIABLES
    pc,         \* position of the running scenario
    kind,       \* subfile codec: the card type, "DL" or "ID"
    origin,     \* subfile codec: "built" (from a subfile value) or "scanned" (raw bytes)
    subfile,    \* subfile codec: the DlSubfile / IdSubfile value being encoded
    encoded,    \* subfile codec: the bytes handed to decode_subfile
    decoded,    \* subfile codec: the result of decode_subfile
    reencoded,  \* subfile codec: the bytes of the decoded subfile, encoded again
    fbuilder,   \* file: the FileBuilder
    pushed,     \* file: the typed subfiles pushed so far, <<type, value>> each
    fbytes,     \* file: the bytes written by FileBuilder::write, or scanned
    file,       \* file: the result of File::new (header, designators, reader)
    fread,      \* file: the last read_subfile call, its result, where the reader stood
    rebuilt,    \* file: the bytes written from the decoded header and subfiles
    pcindex,    \* index: the ProtectedComponentIndex (a u32)
    inserted,   \* index: the elements inserted and not removed since (history)
    elements,   \* index: the DlMandatoryElements the optical data is made from
    multibase,  \* index: the multibase string handed to decode
    decodedIdx, \* index: the result of ProtectedComponentIndex::decode
    optical,    \* index: the result of to_optical_data_bytes
    xihash,     \* ecdsa-xi-2023: the last call of the hashing algorithm and its result
    signedMrz,  \* credential: the MRZ the credential was signed over
    vc,         \* credential: the result of sign
    shown,      \* credential: the MRZ handed to the last verify
    vresult,    \* credential: the parameters and the result of the last verify
    okSame,     \* credential: a verify against the signed MRZ reported success (history)
    overflow_checks, \* status list: the build checks integer overflow (debug) or wraps (release)
    statusCall, \* status list: the entry and list length handed to from_bitstring_status_list_entry
    terseEntry, \* status list: the result of from_bitstring_status_list_entry
    expanded,   \* status list: the info handed to to_bitstring_status_list_entry and its result
    qrInput,    \* QR code: the bytes handed to encode_qr_code_payload
    qrPayload,  \* QR code: the payload, encoded or scanned
    qrResult,   \* QR code: the result of decode_qr_code_payload
    fieldCall,  \* field value: the type, class, capacity and bytes handed to new
    fieldResult, \* field value: the result of new
    fieldBytes, \* field value: the result of as_bytes
    sfBuilder,  \* builder: the DlSubfileBuilder
    everSet,    \* builder: the elements set since the builder was made (history)
    sfBuilt,    \* builder: the result of build
    aamvaCall,  \* AAMVA credential: the last sign or verify call and its result
    recBytes,   \* record: the bytes handed to RecordEntry::decode
    recResult,  \* record: the result of RecordEntry::decode
    hdrBytes,  \* header: the bytes handed to Header::decode or SubfileDesignator::decode
    hdrResult,  \* header: the result of the decode
    rdDecoder,  \* reader: the decoder type whose decode_subfile runs
    rdBytes,  \* reader: the bytes of the source
    rdPos,  \* reader: the place of the next byte of the source (1-based)
    rdAcc,  \* reader: what the decoder has built so far
    rdEntry,  \* reader: the record entry being read
    rdResult  \* reader: the result of decode_subfile

codecVars == <<kind, origin, subfile, encoded, decoded, reencoded>>

fileVars == <<fbuilder, pushed, fbytes, file, fread, rebuilt>>

indexVars == <<pcindex, inserted, elements, multibase, decodedIdx, optical>>

xiVars == <<xihash, signedMrz, vc, shown, vresult, okSame>>

statusVars == <<overflow_checks, statusCall, terseEntry, expanded>>

qrVars == <<qrInput, qrPayload, qrResult>>

fieldVars == <<fieldCall, fieldResult, fieldBytes>>

builderVars == <<sfBuilder, everSet, sfBuilt>>

aamvaVars == <<aamvaCall>>

recordVars == <<recBytes, recResult>>

headerVars == <<hdrBytes, hdrResult>>

readerVars == <<rdDecoder, rdBytes, rdPos, rdAcc, rdEntry, rdResult>>

libVars == <<statusVars, qrVars, fieldVars, builderVars, aamvaVars, recordVars, headerVars, readerVars>>

coreVars == <<codecVars, fileVars, indexVars, xiVars>>

exceptStatus == <<coreVars, qrVars, fieldVars, builderVars, aamvaVars, recordVars, headerVars, readerVars>>

exceptQr == <<coreVars, statusVars, fieldVars, builderVars, aamvaVars, recordVars, headerVars, readerVars>>

exceptField == <<coreVars, statusVars, qrVars, builderVars, aamvaVars, recordVars, headerVars, readerVars>>

exceptBuilder == <<coreVars, statusVars, qrVars, fieldVars, aamvaVars, recordVars, headerVars, readerVars>>

exceptAamva == <<coreVars, statusVars, qrVars, fieldVars, builderVars, recordVars, headerVars, readerVars>>

exceptRecord == <<coreVars, statusVars, qrVars, fieldVars, builderVars, aamvaVars, headerVars, readerVars>>

exceptHeader == <<coreVars, statusVars, qrVars, fieldVars, builderVars, aamvaVars, recordVars, readerVars>>

exceptReader == <<coreVars, statusVars, qrVars, fieldVars, builderVars, aamvaVars, recordVars, headerVars>>

vars == <<pc, codecVars, fileVars, indexVars, xiVars, libVars>>

(***************************************************************************)
(* Results and options.                                                    *)
(***************************************************************************)
Ok(v) == [ok |-> TRUE, err |-> "", val |-> v]

Err(e) == [ok |-> FALSE, err |-> e, val |-> <<>>]

ErrOf(e, what) == [ok |-> FALSE, err |-> e, val |-> what]

None == <<>>

Some(v) == <<v>>

\* The variables of a scenario that is not running.
IdleCodec ==
    /\ kind = "DL" /\ origin = "built" /\ subfile = <<>>
    /\ encoded = <<>> /\ decoded = Err("") /\ reencoded = <<>>

IdleFile ==
    /\ fbuilder = <<>> /\ pushed = <<>> /\ fbytes = <<>>
    /\ file = Err("") /\ fread = <<>> /\ rebuilt = <<>>

IdleIndex ==
    /\ pcindex = 0 /\ inserted = {} /\ elements = <<>>
    /\ multibase = <<>> /\ decodedIdx = Err("") /\ optical = <<>>

IdleXi ==
    /\ xihash = <<>> /\ signedMrz = <<>> /\ vc = Err("")
    /\ shown = <<>> /\ vresult = <<>> /\ okSame = FALSE

IdleStatus ==
    /\ overflow_checks = FALSE /\ statusCall = <<>> /\ terseEntry = Err("") /\ expanded = <<>>

IdleQr ==
    /\ qrInput = <<>> /\ qrPayload = <<>> /\ qrResult = Err("")

IdleField ==
    /\ fieldCall = <<>> /\ fieldResult = Err("") /\ fieldBytes = <<>>

IdleBuilder ==
    /\ sfBuilder = <<>> /\ everSet = {} /\ sfBuilt = Err("")

IdleAamva == aamvaCall = <<>>

IdleRecord == recBytes = <<>> /\ recResult = Err("")

IdleHeader == hdrBytes = <<>> /\ hdrResult = Err("")

IdleReader == rdDecoder = "" /\ rdBytes = <<>> /\ rdPos = 1 /\ rdAcc = <<>> /\ rdEntry = <<>> /\ rdResult = Err("")

IdleLib == IdleStatus /\ IdleQr /\ IdleField /\ IdleBuilder /\ IdleAamva /\ IdleRecord /\ IdleHeader /\ IdleReader

IdleCore == IdleCodec /\ IdleFile /\ IdleIndex /\ IdleXi

RECURSIVE Concat(_)
Concat(chunks) ==
    IF chunks = <<>> THEN <<>> ELSE Head(chunks) \o Concat(Tail(chunks))

(***************************************************************************)
(* pdf_417.rs: framing bytes.                                              *)
(***************************************************************************)
DATA_ELEMENT_SEPARATOR == 10

RECORD_SEPARATOR == 30

SEGMENT_TERMINATOR == 13

(***************************************************************************)
(* The element tables, in declaration order: <<variant, tag>>.             *)
(***************************************************************************)
DlMandatoryElement ==
    << <<"CustomerIdNumber", <<68, 65, 81>> >>,  \* DAQ : V25Ans
       <<"CustomerFamilyName", <<68, 67, 83>> >>,  \* DCS : V40Ans
       <<"FamilyNameTruncation", <<68, 68, 69>> >>,  \* DDE : F1A
       <<"CustomerFirstName", <<68, 65, 67>> >>,  \* DAC : V40Ans
       <<"FirstNameTruncation", <<68, 68, 70>> >>,  \* DDF : F1A
       <<"CustomerMiddleName", <<68, 65, 68>> >>,  \* DAD : V40Ans
       <<"MiddleNameTruncation", <<68, 68, 71>> >>,  \* DDG : F1A
       <<"VehicleClass", <<68, 67, 65>> >>,  \* DCA : V6Ans
       <<"RestrictionCodes", <<68, 67, 66>> >>,  \* DCB : V12Ans
       <<"EndorsementCodes", <<68, 67, 68>> >>,  \* DCD : V5Ans
       <<"DocumentIssueDate", <<68, 66, 68>> >>,  \* DBD : F8N
       <<"DateOfBirth", <<68, 66, 66>> >>,  \* DBB : F8N
       <<"DocumentExpirationDate", <<68, 66, 65>> >>,  \* DBA : F8N
       <<"Sex", <<68, 66, 67>> >>,  \* DBC : F1N
       <<"Height", <<68, 65, 85>> >>,  \* DAU : F6Ans
       <<"EyeColor", <<68, 65, 89>> >>,  \* DAY : F3A
       <<"AddressStreet1", <<68, 65, 71>> >>,  \* DAG : V35Ans
       <<"AddressCity", <<68, 65, 73>> >>,  \* DAI : V20Ans
       <<"AddressJurisdictionCode", <<68, 65, 74>> >>,  \* DAJ : F2A
       <<"AddressPostalCode", <<68, 65, 75>> >>,  \* DAK : F11Ans
       <<"DocumentDiscriminator", <<68, 67, 70>> >>,  \* DCF : V25Ans
       <<"CountryIdentification", <<68, 67, 71>> >> >>  \* DCG : F3A

DlOptionalElement ==
    << <<"AddressStreet2", <<68, 65, 72>> >>,  \* DAH : V35Ans
       <<"WeightInPounds", <<68, 65, 87>> >>,  \* DAW : F3N
       <<"WeightInKilograms", <<68, 65, 88>> >>,  \* DAX : F3N
       <<"HairColor", <<68, 65, 90>> >>,  \* DAZ : V12A
       <<"PlaceOfBirth", <<68, 67, 73>> >>,  \* DCI : V33A
       <<"AuditInformation", <<68, 67, 74>> >>,  \* DCJ : V25Ans
       <<"InventoryControlNumber", <<68, 67, 75>> >>,  \* DCK : V25Ans
       <<"AkaFamilyName", <<68, 66, 78>> >>,  \* DBN : V10Ans
       <<"AkaGivenName", <<68, 66, 71>> >>,  \* DBG : V15Ans
       <<"AkaSuffixName", <<68, 66, 83>> >>,  \* DBS : V5Ans
       <<"NameSuffix", <<68, 67, 85>> >>,  \* DCU : V5Ans
       <<"WeightRange", <<68, 67, 69>> >>,  \* DCE : F1N
       <<"RaceOrEthnicity", <<68, 67, 76>> >>,  \* DCL : V3A
       <<"StandardVehicleClass", <<68, 67, 77>> >>,  \* DCM : F4An
       <<"StandardEndorsementCode", <<68, 67, 78>> >>,  \* DCN : F5An
       <<"StandardRestrictionCode", <<68, 67, 79>> >>,  \* DCO : F12An
       <<"VehicleClassDescription", <<68, 67, 80>> >>,  \* DCP : V50Ans
       <<"EndorsementCodeDescription", <<68, 67, 81>> >>,  \* DCQ : V50Ans
       <<"RestrictionCodeDescription", <<68, 67, 82>> >>,  \* DCR : V50Ans
       <<"ComplianceType", <<68, 68, 65>> >>,  \* DDA : F1A
       <<"CardRevisionDate", <<68, 68, 66>> >>,  \* DDB : F8N
       <<"HazmatEndorsementExpirationDate", <<68, 68, 67>> >>,  \* DDC : F8N
       <<"LimitedDurationDocumentIndicator", <<68, 68, 68>> >>,  \* DDD : F1N
       <<"Under18Until", <<68, 68, 72>> >>,  \* DDH : F8N
       <<"Under19Until", <<68, 68, 73>> >>,  \* DDI : F8N
       <<"Under21Until", <<68, 68, 74>> >>,  \* DDJ : F8N
       <<"OrganDonorIndicator", <<68, 68, 75>> >>,  \* DDK : F1N
       <<"VeteranIndicator", <<68, 68, 76>> >> >>  \* DDL : F1N

IdMandatoryElement ==
    << <<"DocumentExpirationDate", <<68, 66, 65>> >>,  \* DBA : F8N
       <<"CustomerFamilyName", <<68, 67, 83>> >>,  \* DCS : V40Ans
       <<"CustomerFirstName", <<68, 65, 67>> >>,  \* DAC : V40Ans
       <<"CustomerMiddleName", <<68, 65, 68>> >>,  \* DAD : V40Ans
       <<"DocumentIssueDate", <<68, 66, 68>> >>,  \* DBD : F8N
       <<"DateOfBirth", <<68, 66, 66>> >>,  \* DBB : F8N
       <<"Sex", <<68, 66, 67>> >>,  \* DBC : F1N
       <<"EyeColor", <<68, 65, 89>> >>,  \* DAY : F3A
       <<"Height", <<68, 65, 85>> >>,  \* DAU : F6Ans
       <<"AddressStreet1", <<68, 65, 71>> >>,  \* DAG : V35Ans
       <<"AddressCity", <<68, 65, 73>> >>,  \* DAI : V20Ans
       <<"AddressJurisdictionCode", <<68, 65, 74>> >>,  \* DAJ : F2A
       <<"AddressPostalCode", <<68, 65, 75>> >>,  \* DAK : F11Ans
       <<"CustomerIdNumber", <<68, 65, 81>> >>,  \* DAQ : V25Ans
       <<"DocumentDiscriminator", <<68, 67, 70>> >>,  \* DCF : V25Ans
       <<"CountryIdentification", <<68, 67, 71>> >>,  \* DCG : F3A
       <<"FamilyNameTruncation", <<68, 68, 69>> >>,  \* DDE : F1A
       <<"FirstNameTruncation", <<68, 68, 70>> >>,  \* DDF : F1A
       <<"MiddleNameTruncation", <<68, 68, 71>> >> >>  \* DDG : F1A

IdOptionalElement ==
    << <<"AddressStreet2", <<68, 65, 72>> >>,  \* DAH : V35Ans
       <<"HairColor", <<68, 65, 90>> >>,  \* DAZ : V12A
       <<"PlaceOfBirth", <<68, 67, 73>> >>,  \* DCI : V33A
       <<"AuditInformation", <<68, 67, 74>> >>,  \* DCJ : V25Ans
       <<"InventoryControlNumber", <<68, 67, 75>> >>,  \* DCK : V25Ans
       <<"AkaFamilyName", <<68, 66, 78>> >>,  \* DBN : V10Ans
       <<"AkaGivenName", <<68, 66, 71>> >>,  \* DBG : V15Ans
       <<"AkaSuffixName", <<68, 66, 83>> >>,  \* DBS : V5Ans
       <<"NameSuffix", <<68, 67, 85>> >>,  \* DCU : V5Ans
       <<"WeightRange", <<68, 67, 69>> >>,  \* DCE : F1N
       <<"RaceOrEthnicity", <<68, 67, 76>> >>,  \* DCL : V3A
       <<"ComplianceType", <<68, 68, 65>> >>,  \* DDA : F1A
       <<"CardRevisionDate", <<68, 68, 66>> >>,  \* DDB : F8N
       <<"HazmatEndorsementExpirationDate", <<68, 68, 67>> >>,  \* DDC : F8N
       <<"LimitedDurationDocumentIndicator", <<68, 68, 68>> >>,  \* DDD : F1N
       <<"WeightInPounds", <<68, 65, 87>> >>,  \* DAW : F3N
       <<"WeightInKilograms", <<68, 65, 88>> >>,  \* DAX : F3N
       <<"Under18Until", <<68, 68, 72>> >>,  \* DDH : F8N
       <<"Under19Until", <<68, 68, 73>> >>,  \* DDI : F8N
       <<"Under21Until", <<68, 68, 74>> >>,  \* DDJ : F8N
       <<"OrganDonorIndicator", <<68, 68, 75>> >>,  \* DDK : F1N
       <<"VeteranIndicator", <<68, 68, 76>> >> >>  \* DDL : F1N

DL_SUBFILE_BYTES ==
    <<
       68, 76, 68, 65, 67, 74, 79, 72, 78, 10, 68, 65, 68, 78, 79, 78, 69, 10, 68, 65,
       71, 49, 50, 51, 32, 77, 65, 73, 78, 32, 83, 84, 10, 68, 65, 73, 65, 78, 89, 86,
       73, 76, 76, 69, 10, 68, 65, 74, 85, 84, 79, 10, 68, 65, 75, 70, 56, 55, 80, 50,
       48, 48, 48, 48, 32, 32, 10, 68, 65, 81, 70, 57, 56, 55, 54, 53, 52, 51, 50, 49,
       10, 68, 65, 85, 48, 54, 57, 32, 73, 78, 10, 68, 65, 89, 66, 82, 79, 10, 68, 66,
       65, 48, 52, 49, 57, 50, 48, 51, 48, 10, 68, 66, 66, 48, 52, 49, 57, 49, 57, 56,
       56, 10, 68, 66, 67, 49, 10, 68, 66, 68, 48, 49, 48, 49, 50, 48, 50, 52, 10, 68,
       67, 65, 67, 10, 68, 67, 66, 78, 79, 78, 69, 10, 68, 67, 68, 78, 79, 78, 69, 10,
       68, 67, 70, 85, 84, 79, 68, 79, 67, 68, 73, 83, 67, 82, 73, 77, 10, 68, 67, 71,
       85, 84, 79, 10, 68, 67, 83, 83, 77, 73, 84, 72, 10, 68, 68, 69, 78, 10, 68, 68,
       70, 78, 10, 68, 68, 71, 78, 10, 68, 65, 87, 49, 53, 56, 10, 68, 67, 75, 49, 50,
       51, 52, 53, 54, 55, 56, 57, 48, 10, 68, 68, 65, 78, 13 >>

(***************************************************************************)
(* data_elements_enum!: COUNT, from_id, id.                                *)
(***************************************************************************)
Count(LIST) == Len(LIST)

Variants(LIST) == {LIST[i][1] : i \in 1..Len(LIST)}

FromId(LIST, id) ==
    IF \E i \in 1..Len(LIST) : LIST[i][2] = id
    THEN Some(LIST[CHOOSE i \in 1..Len(LIST) : LIST[i][2] = id][1])
    ELSE None

IdOf(LIST, e) == LIST[CHOOSE i \in 1..Len(LIST) : LIST[i][1] = e][2]

Mandatory(e) == [variant |-> "Mandatory", e |-> e]

Optional(e) == [variant |-> "Optional", e |-> e]

DlElementFromId(id) ==
    LET m == FromId(DlMandatoryElement, id)
        o == FromId(DlOptionalElement, id)
    IN  IF m # None THEN Some(Mandatory(m[1]))
        ELSE IF o # None THEN Some(Optional(o[1]))
        ELSE None

DlElementId(element) ==
    IF element.variant = "Mandatory"
    THEN IdOf(DlMandatoryElement, element.e)
    ELSE IdOf(DlOptionalElement, element.e)

IdElementFromId(id) ==
    LET m == FromId(IdMandatoryElement, id)
        o == FromId(IdOptionalElement, id)
    IN  IF m # None THEN Some(Mandatory(m[1]))
        ELSE IF o # None THEN Some(Optional(o[1]))
        ELSE None

IdElementId(element) ==
    IF element.variant = "Mandatory"
    THEN IdOf(IdMandatoryElement, element.e)
    ELSE IdOf(IdOptionalElement, element.e)

(***************************************************************************)
(* mandatory_data_elements! / optional_data_elements!: the containers.     *)
(* A mandatory container maps every variant to a byte string; a builder    *)
(* and an optional container map every variant to an Option.               *)
(***************************************************************************)
PartialNew(LIST) == [e \in Variants(LIST) |-> None]

MandatoryIter(LIST, m) ==
    [i \in 1..Len(LIST) |-> <<Mandatory(LIST[i][1]), m[LIST[i][1]]>>]

\* A build that names the last missing element of the table.
MandatoryBuildLastMissing(LIST, partial) ==
    LET missing == {i \in 1..Len(LIST) : partial[LIST[i][1]] = None}
        last == CHOOSE i \in missing : \A j \in missing : i >= j
    IN  IF missing = {}
        THEN Ok([e \in Variants(LIST) |-> partial[e][1]])
        ELSE ErrOf("MissingDataElement", LIST[last][1])

MandatoryBuild(LIST, partial) ==
    LET missing == {i \in 1..Len(LIST) : partial[LIST[i][1]] = None}
        first == CHOOSE i \in missing : \A j \in missing : i <= j
    IN  IF missing = {}
        THEN Ok([e \in Variants(LIST) |-> partial[e][1]])
        ELSE ErrOf("MissingDataElement", LIST[first][1])

OptionalLen(LIST, o) == Cardinality({e \in Variants(LIST) : o[e] # None})

OptionalIter(LIST, o) ==
    LET slots == [i \in 1..Len(LIST) |-> <<Optional(LIST[i][1]), o[LIST[i][1]]>>]
        present == SelectSeq(slots, LAMBDA s : s[2] # None)
    IN  [i \in 1..Len(present) |-> <<present[i][1], present[i][2][1]>>]

(***************************************************************************)
(* pdf_417.rs: the reader primitives and RecordEntry.                      *)
(***************************************************************************)
\* A reader that yields a segment terminator at the end of the source.
read_u8_terminator_at_end(bytes, pos) ==
    IF pos > Len(bytes) THEN Ok([b |-> 13, pos |-> pos])
    ELSE Ok([b |-> bytes[pos], pos |-> pos + 1])

\* read_u8: the next byte, or UnexpectedEof at the end of the source.
read_u8(bytes, pos) ==
    IF pos > Len(bytes) THEN Err("UnexpectedEof")
    ELSE Ok([b |-> bytes[pos], pos |-> pos + 1])

read_array(bytes, pos, n) ==
    IF pos + n - 1 <= Len(bytes)
    THEN Ok([arr |-> SubSeq(bytes, pos, pos + n - 1), pos |-> pos + n])
    ELSE Err("UnexpectedEof")

\* A read that takes the record separator for a byte of the value.
ReadValueThroughRecordSeparator(bytes, start, pos) ==
    LET stops == {i \in pos..Len(bytes) :
                     bytes[i] \in {DATA_ELEMENT_SEPARATOR, SEGMENT_TERMINATOR}}
        stop == CHOOSE i \in stops : \A j \in stops : i <= j
    IN  IF stops = {} THEN Err("UnexpectedEof")
        ELSE Ok([value |-> SubSeq(bytes, start, stop - 1),
                 last |-> bytes[stop] = SEGMENT_TERMINATOR, pos |-> stop + 1])

ReadValue(bytes, start, pos) ==
    LET stops == {i \in pos..Len(bytes) :
                     bytes[i] \in {DATA_ELEMENT_SEPARATOR, RECORD_SEPARATOR,
                                   SEGMENT_TERMINATOR}}
        stop == CHOOSE i \in stops : \A j \in stops : i <= j
    IN  IF stops = {} THEN Err("UnexpectedEof")
        ELSE IF bytes[stop] = DATA_ELEMENT_SEPARATOR
            THEN Ok([value |-> SubSeq(bytes, start, stop - 1), last |-> FALSE, pos |-> stop + 1])
        ELSE IF bytes[stop] = RECORD_SEPARATOR
            THEN Err("InvalidData")
        ELSE Ok([value |-> SubSeq(bytes, start, stop - 1), last |-> TRUE, pos |-> stop + 1])

RecordEntryDecode(bytes, pos) ==
    LET field == read_array(bytes, pos, 3)
        value == ReadValue(bytes, field.val.pos, field.val.pos)
    IN  IF ~field.ok THEN field
        ELSE IF ~value.ok THEN value
        ELSE Ok([field |-> field.val.arr, value |-> value.val.value,
                 last |-> value.val.last, pos |-> value.val.pos])

RecordEntryEncodeRef(field, value, last) ==
    field \o value
          \o <<IF last THEN SEGMENT_TERMINATOR ELSE DATA_ELEMENT_SEPARATOR>>

SubfileNew(subfile_type, data) == [subfile_type |-> subfile_type, data |-> data]

\* A writer that forgets the type code.
SubfileWriteDataOnly(s) == s.data

SubfileWrite(s) == s.subfile_type \o s.data

(***************************************************************************)
(* dl.rs: DlSubfile, DlSubfileBuilder, decode_subfile, From<DlSubfile>.    *)
(***************************************************************************)
DlSubfileBuilderNew ==
    [mandatory |-> PartialNew(DlMandatoryElement),
     optional |-> PartialNew(DlOptionalElement)]

\* A setter that keeps the value an element already has.
DlSubfileBuilderSetOnce(builder, element, value) ==
    IF element.variant = "Mandatory"
    THEN IF builder.mandatory[element.e] # None THEN builder
         ELSE [builder EXCEPT !.mandatory[element.e] = Some(value)]
    ELSE IF builder.optional[element.e] # None THEN builder
         ELSE [builder EXCEPT !.optional[element.e] = Some(value)]

DlSubfileBuilderSet(builder, element, value) ==
    IF element.variant = "Mandatory"
    THEN [builder EXCEPT !.mandatory[element.e] = Some(value)]
    ELSE [builder EXCEPT !.optional[element.e] = Some(value)]

DlSubfileBuilderBuild(builder) ==
    LET m == MandatoryBuild(DlMandatoryElement, builder.mandatory)
    IN  IF m.ok THEN Ok([mandatory |-> m.val, optional |-> builder.optional])
        ELSE m

\* A loop that skips the records whose tag is in neither table.
RECURSIVE DlDecodeLoopSkippingUnknownTags(_, _, _)
DlDecodeLoopSkippingUnknownTags(bytes, pos, builder) ==
    LET entry == RecordEntryDecode(bytes, pos)
        element == DlElementFromId(entry.val.field)
        next == IF element = None THEN builder
                ELSE DlSubfileBuilderSet(builder, element[1], entry.val.value)
        built == DlSubfileBuilderBuild(next)
    IN  IF ~entry.ok THEN entry
        ELSE IF entry.val.last
            THEN IF built.ok
                 THEN Ok([subfile |-> built.val, pos |-> entry.val.pos])
                 ELSE Err("InvalidData")
        ELSE DlDecodeLoopSkippingUnknownTags(bytes, entry.val.pos, next)

RECURSIVE DlDecodeLoop(_, _, _)
DlDecodeLoop(bytes, pos, builder) ==
    LET entry == RecordEntryDecode(bytes, pos)
        element == DlElementFromId(entry.val.field)
        next == DlSubfileBuilderSet(builder, element[1], entry.val.value)
        built == DlSubfileBuilderBuild(next)
    IN  IF ~entry.ok THEN entry
        ELSE IF element = None THEN Err("InvalidData")
        ELSE IF entry.val.last
            THEN IF built.ok
                 THEN Ok([subfile |-> built.val, pos |-> entry.val.pos])
                 ELSE Err("InvalidData")
        ELSE DlDecodeLoop(bytes, entry.val.pos, next)

DlDecodeSubfile(bytes, pos) ==
    LET ty == read_array(bytes, pos, 2)
    IN  IF ~ty.ok THEN ty
        ELSE IF ty.val.arr # <<68, 76>> THEN Err("InvalidData")
        ELSE DlDecodeLoop(bytes, ty.val.pos, DlSubfileBuilderNew)

\* A length that counts the mandatory elements only.
DlSubfileLenMandatoryOnly(value) == Count(DlMandatoryElement)

DlSubfileLen(value) ==
    Count(DlMandatoryElement) + OptionalLen(DlOptionalElement, value.optional)

DlSubfileIter(value) ==
    MandatoryIter(DlMandatoryElement, value.mandatory)
        \o OptionalIter(DlOptionalElement, value.optional)

DlIntoSubfile(value) ==
    LET last == DlSubfileLen(value) - 1
        it == DlSubfileIter(value)
    IN  SubfileNew(<<68, 76>>,
            Concat([i \in 1..Len(it) |->
                RecordEntryEncodeRef(DlElementId(it[i][1]), it[i][2], i - 1 = last)]))

(***************************************************************************)
(* id.rs: IdSubfile, decode_subfile, From<IdSubfile>.                      *)
(***************************************************************************)
IdBuilderSet(builder, element, value) ==
    IF element.variant = "Mandatory"
    THEN [builder EXCEPT !.mandatory[element.e] = Some(value)]
    ELSE [builder EXCEPT !.optional[element.e] = Some(value)]

RECURSIVE IdDecodeLoop(_, _, _)
IdDecodeLoop(bytes, pos, builder) ==
    LET entry == RecordEntryDecode(bytes, pos)
        element == IdElementFromId(entry.val.field)
        next == IdBuilderSet(builder, element[1], entry.val.value)
        built == MandatoryBuild(IdMandatoryElement, next.mandatory)
    IN  IF ~entry.ok THEN entry
        ELSE IF element = None THEN Err("InvalidData")
        ELSE IF entry.val.last
            THEN IF built.ok
                 THEN Ok([subfile |-> [mandatory |-> built.val, optional |-> next.optional],
                          pos |-> entry.val.pos])
                 ELSE Err("InvalidData")
        ELSE IdDecodeLoop(bytes, entry.val.pos, next)

IdDecodeSubfile(bytes, pos) ==
    LET ty == read_array(bytes, pos, 2)
    IN  IF ~ty.ok THEN ty
        ELSE IF ty.val.arr # <<73, 68>> THEN Err("InvalidData")
        ELSE IdDecodeLoop(bytes, ty.val.pos,
                [mandatory |-> PartialNew(IdMandatoryElement),
                 optional |-> PartialNew(IdOptionalElement)])

IdSubfileLen(value) ==
    Count(IdMandatoryElement) + OptionalLen(IdOptionalElement, value.optional)

IdSubfileIter(value) ==
    MandatoryIter(IdMandatoryElement, value.mandatory)
        \o OptionalIter(IdOptionalElement, value.optional)

IdIntoSubfile(value) ==
    LET last == IdSubfileLen(value) - 1
        it == IdSubfileIter(value)
    IN  SubfileNew(<<68, 76>>,
            Concat([i \in 1..Len(it) |->
                RecordEntryEncodeRef(IdElementId(it[i][1]), it[i][2], i - 1 = last)]))

(***************************************************************************)
(* pdf_417.rs: Header, SubfileDesignator, FileBuilder, File.               *)
(* aamva/mod.rs: ZZSubfile.                                                *)
(***************************************************************************)
HEADER_SIZE == 9 + 6 + 2 + 2 + 2

SUBFILE_DESIGNATOR_SIZE == 2 + 4 + 4

PREFIX == <<64, 10, 30, 13, 65, 78, 83, 73, 32>>

\* A digit test that lets the byte after "9" through.
decode_digit_through_colon(d) ==
    IF d >= 48 /\ d <= 58 THEN Ok(d - 48) ELSE Err("InvalidData")

decode_digit(d) == IF d >= 48 /\ d <= 57 THEN Ok(d - 48) ELSE Err("InvalidData")

encode_digit(value) == value + 48

\* decode_digits2 / decode_digits4 / decode_digits6: most significant first.
RECURSIVE decode_digits(_, _)
decode_digits(digits, acc) ==
    IF digits = <<>> THEN Ok(acc)
    ELSE IF ~decode_digit(Head(digits)).ok THEN Err("InvalidData")
    ELSE decode_digits(Tail(digits), acc * 10 + decode_digit(Head(digits)).val)

encode_digits2(value) ==
    <<encode_digit((value \div 10) % 10), encode_digit(value % 10)>>

encode_digits4(value) ==
    <<encode_digit((value \div 1000) % 10), encode_digit((value \div 100) % 10),
      encode_digit((value \div 10) % 10), encode_digit(value % 10)>>

encode_digits6(value) ==
    <<encode_digit((value \div 100000) % 10), encode_digit((value \div 10000) % 10),
      encode_digit((value \div 1000) % 10), encode_digit((value \div 100) % 10),
      encode_digit((value \div 10) % 10), encode_digit(value % 10)>>

HeaderEncode(h) ==
    PREFIX \o encode_digits6(h.issuer_id) \o encode_digits2(h.version)
           \o encode_digits2(h.jurisdiction_version) \o encode_digits2(h.entry_count)

HeaderDecode(bytes, pos) ==
    LET prefix == read_array(bytes, pos, 9)
        all == read_array(bytes, pos, 21)
        issuer_id == decode_digits(SubSeq(bytes, pos + 9, pos + 14), 0)
        version == decode_digits(SubSeq(bytes, pos + 15, pos + 16), 0)
        jurisdiction_version == decode_digits(SubSeq(bytes, pos + 17, pos + 18), 0)
        entry_count == decode_digits(SubSeq(bytes, pos + 19, pos + 20), 0)
    IN  IF ~prefix.ok THEN prefix
        ELSE IF prefix.val.arr # PREFIX THEN Err("InvalidData")
        ELSE IF pos + 14 > Len(bytes) THEN Err("UnexpectedEof")
        ELSE IF ~issuer_id.ok THEN issuer_id
        ELSE IF pos + 16 > Len(bytes) THEN Err("UnexpectedEof")
        ELSE IF ~version.ok THEN version
        ELSE IF pos + 18 > Len(bytes) THEN Err("UnexpectedEof")
        ELSE IF ~jurisdiction_version.ok THEN jurisdiction_version
        ELSE IF ~all.ok THEN all
        ELSE IF ~entry_count.ok THEN entry_count
        ELSE Ok([header |-> [issuer_id |-> issuer_id.val, version |-> version.val,
                             jurisdiction_version |-> jurisdiction_version.val,
                             entry_count |-> entry_count.val],
                 pos |-> pos + 21])

SubfileDesignatorEncode(d) ==
    d.subfile_type \o encode_digits4(d.offset) \o encode_digits4(d.length)

SubfileDesignatorDecode(bytes, pos) ==
    LET ty == read_array(bytes, pos, 2)
        off == read_array(bytes, pos + 2, 4)
        len == read_array(bytes, pos + 6, 4)
        offset == decode_digits(off.val.arr, 0)
        length == decode_digits(len.val.arr, 0)
    IN  IF ~ty.ok THEN ty
        ELSE IF ~off.ok THEN off
        ELSE IF ~offset.ok THEN offset
        ELSE IF ~len.ok THEN len
        ELSE IF ~length.ok THEN length
        ELSE Ok([designator |-> [subfile_type |-> ty.val.arr, offset |-> offset.val,
                                 length |-> length.val],
                 pos |-> pos + 10])

FileBuilderNew(issuer_id, version, jurisdiction_version) ==
    [header |-> [issuer_id |-> issuer_id, version |-> version,
                 jurisdiction_version |-> jurisdiction_version, entry_count |-> 0],
     subfiles |-> <<>>]

FileBuilderPush(builder, s) == [builder EXCEPT !.subfiles = Append(@, s)]

\* The designators FileBuilder::write emits: the running offset starts past
\* the header and the designator table.
RECURSIVE WriteDesignators(_, _)
WriteDesignators(subfiles, offset) ==
    IF subfiles = <<>> THEN <<>>
    ELSE SubfileDesignatorEncode([subfile_type |-> Head(subfiles).subfile_type,
                                  offset |-> offset,
                                  length |-> 2 + Len(Head(subfiles).data)])
         \o WriteDesignators(Tail(subfiles), offset + 2 + Len(Head(subfiles).data))

FileBuilderWrite(builder) ==
    LET header == [builder.header EXCEPT !.entry_count = Len(builder.subfiles) % 256]
    IN  HeaderEncode(header)
        \o WriteDesignators(builder.subfiles,
               HEADER_SIZE + SUBFILE_DESIGNATOR_SIZE * Len(builder.subfiles))
        \o Concat([i \in 1..Len(builder.subfiles) |-> SubfileWrite(builder.subfiles[i])])

RECURSIVE ReadDesignators(_, _, _, _)
ReadDesignators(bytes, pos, n, acc) ==
    LET d == SubfileDesignatorDecode(bytes, pos)
    IN  IF n = 0 THEN Ok([designators |-> acc, pos |-> pos])
        ELSE IF ~d.ok THEN d
        ELSE ReadDesignators(bytes, d.val.pos, n - 1, Append(acc, d.val.designator))

\* File::new: the value holds the header, the designators and the reader,
\* whose position is the 1-based index of the next byte.
FileNew(bytes) ==
    LET header == HeaderDecode(bytes, 1)
        ds == ReadDesignators(bytes, header.val.pos, header.val.header.entry_count, <<>>)
    IN  IF ~header.ok THEN header
        ELSE IF ~ds.ok THEN ds
        ELSE Ok([header |-> header.val.header,
                 subfile_designators |-> ds.val.designators,
                 reader |-> ds.val.pos])

FileIndexOf(f, subfile_type) ==
    LET hits == {i \in 1..Len(f.subfile_designators) :
                     f.subfile_designators[i].subfile_type = subfile_type}
    IN  IF hits = {} THEN None
        ELSE Some(CHOOSE i \in hits : \A j \in hits : i <= j)

\* aamva/mod.rs: String::from_utf8 on the inputs of this model, which hold
\* ASCII bytes and 0xFF only.
FromUtf8(value) ==
    IF \A i \in 1..Len(value) : value[i] < 128 THEN Ok(value) ELSE Err("InvalidData")

ZZDecodeSubfile(bytes, pos) ==
    LET ty == read_array(bytes, pos, 2)
        entry == RecordEntryDecode(bytes, ty.val.pos)
        zza == FromUtf8(entry.val.value)
    IN  IF ~ty.ok THEN ty
        ELSE IF ty.val.arr # <<90, 90>> THEN Err("InvalidData")
        ELSE IF ~entry.ok THEN entry
        ELSE IF ~entry.val.last \/ entry.val.field # <<90, 90, 65>> THEN Err("InvalidData")
        ELSE IF ~zza.ok THEN zza
        ELSE Ok([subfile |-> [zza |-> zza.val], pos |-> entry.val.pos])

ZZIntoSubfile(value) ==
    SubfileNew(<<90, 90>>, RecordEntryEncodeRef(<<90, 90, 65>>, value.zza, TRUE))

\* D::decode_subfile for the decoder type D in {"DL", "ID", "ZZ"}.
DecodeSubfile(D, bytes, pos) ==
    IF D = "DL" THEN DlDecodeSubfile(bytes, pos)
    ELSE IF D = "ID" THEN IdDecodeSubfile(bytes, pos)
    ELSE ZZDecodeSubfile(bytes, pos)

\* A read that seeks from where the reader stands (SeekFrom::Current).
FileReadSubfileByIndexFromCurrent(f, bytes, D, index) ==
    DecodeSubfile(D, bytes, f.reader + f.subfile_designators[index].offset)

\* File::read_subfile_by_index: seek to the designator's offset, decode.
FileReadSubfileByIndex(f, bytes, D, index) ==
    DecodeSubfile(D, bytes, f.subfile_designators[index].offset + 1)

\* File::read_subfile: Ok(None) when no designator has the type.
FileReadSubfile(f, bytes, D, subfile_type) ==
    LET i == FileIndexOf(f, subfile_type)
        r == FileReadSubfileByIndex(f, bytes, D, i[1])
    IN  IF i = None THEN Ok([subfile |-> None, pos |-> f.reader])
        ELSE IF ~r.ok THEN r
        ELSE Ok([subfile |-> Some(r.val.subfile), pos |-> r.val.pos])

(***************************************************************************)
(* Scenario 1: the subfile codec.  A subfile value is modified through the *)
(* public setters of its containers, encoded (Subfile::from, then          *)
(* Subfile::write), decoded with decode_subfile, and encoded again.        *)
(* Alternatively the bytes come from a scanned barcode.                    *)
(***************************************************************************)
DL_SUBFILE == DlDecodeSubfile(DL_SUBFILE_BYTES, 1).val.subfile

\* An ID subfile holding the fixture's values (IdMandatoryElements::new_with).
ID_SUBFILE ==
    [mandatory |-> [e \in Variants(IdMandatoryElement) |-> DL_SUBFILE.mandatory[e]],
     optional |-> PartialNew(IdOptionalElement)]

\* Element values the setters are called with: "", "N", "12", "A\nB", "\r", "A<RS>".
Values == {<<>>, <<78>>, <<49, 50>>, <<65, 10, 66>>, <<13>>, <<65, 30>>}

\* The elements the scenario sets: the first and the last of each table.
SettableMandatory(k) ==
    IF k = "DL" THEN {"CustomerIdNumber", "CountryIdentification"}
    ELSE {"DocumentExpirationDate", "MiddleNameTruncation"}

SettableOptional(k) ==
    IF k = "DL" THEN {"AddressStreet2", "VeteranIndicator"}
    ELSE {"AddressStreet2", "VeteranIndicator"}

IntoSubfile(k, value) ==
    IF k = "DL" THEN DlIntoSubfile(value)
    ELSE IF k = "ID" THEN IdIntoSubfile(value)
    ELSE ZZIntoSubfile(value)

DecodeSubfileFromBytes(k, bytes) == DecodeSubfile(k, bytes, 1)

\* Scanned inputs: the test fixture (records in ascending tag order), the
\* same records with the first one repeated, with an optional record given
\* twice, with an unknown tag (first or last), cut short, under the type
\* code of the other decoder, and an ID subfile carrying the fixture's
\* mandatory values, also with a mandatory record given twice.
ScannedInputs(k) ==
    IF k = "DL"
    THEN {DL_SUBFILE_BYTES,
          <<68, 76, 68, 65, 67, 88, 10>> \o SubSeq(DL_SUBFILE_BYTES, 3, Len(DL_SUBFILE_BYTES)),
          <<68, 76, 90, 90, 65, 88, 10>> \o SubSeq(DL_SUBFILE_BYTES, 3, Len(DL_SUBFILE_BYTES)),
          SubSeq(DL_SUBFILE_BYTES, 1, 100),
          SubSeq(DL_SUBFILE_BYTES, 1, Len(DL_SUBFILE_BYTES) - 1) \o <<10, 90, 90, 65, 88, 13>>,
          SubSeq(DL_SUBFILE_BYTES, 1, Len(DL_SUBFILE_BYTES) - 1)
              \o <<10, 68, 68, 76, 49, 10, 68, 68, 76, 48, 13>>,
          <<73, 68>> \o SubSeq(DL_SUBFILE_BYTES, 3, Len(DL_SUBFILE_BYTES))}
    ELSE {<<73, 68>> \o IdIntoSubfile(ID_SUBFILE).data,
          <<73, 68, 68, 68, 76, 49, 10>> \o IdIntoSubfile(ID_SUBFILE).data,
          <<73, 68>> \o SubSeq(DL_SUBFILE_BYTES, 3, Len(DL_SUBFILE_BYTES)),
          <<73, 68, 90, 90, 65, 88, 10>> \o IdIntoSubfile(ID_SUBFILE).data,
          <<73, 68, 68, 65, 67, 88, 10>> \o IdIntoSubfile(ID_SUBFILE).data,
          <<68, 76>> \o IdIntoSubfile(ID_SUBFILE).data}

InitSubfile ==
    /\ pc = "new"
    /\ kind \in {"DL", "ID"}
    /\ origin = "built"
    /\ subfile = IF kind = "DL" THEN DL_SUBFILE ELSE ID_SUBFILE
    /\ encoded = <<>>
    /\ decoded = Err("")
    /\ reencoded = <<>>
    /\ IdleFile
    /\ IdleIndex
    /\ IdleXi
    /\ IdleLib

SfSetMandatory ==
    /\ pc = "new"
    /\ \E e \in SettableMandatory(kind), v \in Values :
           subfile' = [subfile EXCEPT !.mandatory[e] = v]
    /\ UNCHANGED <<pc, kind, origin, encoded, decoded, reencoded, fileVars, indexVars, xiVars, libVars>>

SfSetOptional ==
    /\ pc = "new"
    /\ \E e \in SettableOptional(kind), v \in {None} \cup {Some(x) : x \in Values} :
           subfile' = [subfile EXCEPT !.optional[e] = v]
    /\ UNCHANGED <<pc, kind, origin, encoded, decoded, reencoded, fileVars, indexVars, xiVars, libVars>>

SfEncode ==
    /\ pc = "new"
    /\ encoded' = SubfileWrite(IntoSubfile(kind, subfile))
    /\ pc' = "encoded"
    /\ UNCHANGED <<kind, origin, subfile, decoded, reencoded, fileVars, indexVars, xiVars, libVars>>

SfScan ==
    /\ pc = "new"
    /\ subfile = (IF kind = "DL" THEN DL_SUBFILE ELSE ID_SUBFILE)
    /\ \E x \in ScannedInputs(kind) : encoded' = x
    /\ origin' = "scanned"
    /\ pc' = "encoded"
    /\ UNCHANGED <<kind, subfile, decoded, reencoded, fileVars, indexVars, xiVars, libVars>>

SfDecode ==
    /\ pc = "encoded"
    /\ decoded' = DecodeSubfileFromBytes(kind, encoded)
    /\ pc' = "decoded"
    /\ UNCHANGED <<kind, origin, subfile, encoded, reencoded, fileVars, indexVars, xiVars, libVars>>

SfReencode ==
    /\ pc = "decoded"
    /\ decoded.ok
    /\ reencoded' = SubfileWrite(IntoSubfile(kind, decoded.val.subfile))
    /\ pc' = "done"
    /\ UNCHANGED <<kind, origin, subfile, encoded, decoded, fileVars, indexVars, xiVars, libVars>>

NextSubfile ==
    \/ SfSetMandatory
    \/ SfSetOptional
    \/ SfEncode
    \/ SfScan
    \/ SfDecode
    \/ SfReencode

SpecSubfile == InitSubfile /\ [][NextSubfile]_vars

(***************************************************************************)
(* Scenario 2: a PDF417 file.  Subfiles are pushed on a FileBuilder and    *)
(* written, or the bytes come from a scanned barcode; File::new parses     *)
(* them, read_subfile reads subfiles by type, and the file is built again  *)
(* from the decoded header and subfiles.                                   *)
(***************************************************************************)
MaxSubfiles == 2

PDF417_PAYLOAD ==
    <<
       64, 10, 30, 13, 65, 78, 83, 73, 32, 48, 48, 48, 48, 48, 48, 48, 57, 48, 48, 48,
       50, 68, 76, 48, 48, 52, 49, 48, 50, 51, 52, 90, 90, 48, 50, 55, 53, 48, 50, 48,
       50, 68, 76, 68, 65, 81, 70, 57, 56, 55, 54, 53, 52, 51, 50, 49, 10, 68, 67, 83,
       83, 77, 73, 84, 72, 10, 68, 68, 69, 78, 10, 68, 65, 67, 74, 79, 72, 78, 10, 68,
       68, 70, 78, 10, 68, 65, 68, 78, 79, 78, 69, 10, 68, 68, 71, 78, 10, 68, 67, 65,
       67, 10, 68, 67, 66, 78, 79, 78, 69, 10, 68, 67, 68, 78, 79, 78, 69, 10, 68, 66,
       68, 48, 49, 48, 49, 50, 48, 50, 52, 10, 68, 66, 66, 48, 52, 49, 57, 49, 57, 56,
       56, 10, 68, 66, 65, 48, 52, 49, 57, 50, 48, 51, 48, 10, 68, 66, 67, 49, 10, 68,
       65, 85, 48, 54, 57, 32, 73, 78, 10, 68, 65, 89, 66, 82, 79, 10, 68, 65, 71, 49,
       50, 51, 32, 77, 65, 73, 78, 32, 83, 84, 10, 68, 65, 73, 65, 78, 89, 86, 73, 76,
       76, 69, 10, 68, 65, 74, 85, 84, 79, 10, 68, 65, 75, 70, 56, 55, 80, 50, 48, 48,
       48, 48, 32, 32, 10, 68, 67, 70, 85, 84, 79, 68, 79, 67, 68, 73, 83, 67, 82, 73,
       77, 10, 68, 67, 71, 85, 84, 79, 10, 68, 65, 87, 49, 53, 56, 10, 68, 67, 75, 49,
       50, 51, 52, 53, 54, 55, 56, 57, 48, 10, 68, 68, 65, 78, 13, 90, 90, 90, 90, 65,
       50, 81, 90, 107, 112, 103, 71, 68, 71, 89, 65, 65, 71, 89, 65, 66, 71, 89, 65, 67,
       71, 74, 50, 67, 71, 72, 89, 89, 112, 66, 105, 52, 111, 120, 105, 99, 71, 75, 89, 89,
       122, 104, 105, 121, 71, 78, 65, 97, 53, 90, 73, 103, 103, 82, 105, 54, 111, 104, 105, 99,
       71, 75, 65, 89, 113, 69, 82, 49, 103, 103, 65, 103, 71, 76, 52, 89, 113, 104, 106, 65,
       112, 82, 105, 99, 71, 71, 119, 89, 49, 103, 81, 89, 52, 66, 106, 109, 71, 79, 74, 89,
       81, 88, 113, 51, 119, 117, 86, 114, 83, 101, 76, 77, 53, 105, 71, 69, 122, 105, 97, 66,
       106, 104, 87, 111, 115, 88, 77, 87, 82, 65, 71, 49, 48, 55, 117, 84, 95, 57, 98, 83,
       116, 101, 117, 80, 97, 115, 67, 88, 70, 81, 75, 117, 80, 100, 83, 100, 70, 45, 120, 109,
       85, 111, 70, 107, 65, 48, 121, 82, 74, 111, 87, 52, 69, 82, 118, 65, 84, 78, 121, 101,
       119, 84, 50, 54, 51, 90, 72, 77, 71, 79, 81, 89, 114, 65, 61, 61, 13 >>

\* The subfile values the scenario pushes.
PushPool ==
    {<<"DL", DL_SUBFILE>>,
     <<"DL", [DL_SUBFILE EXCEPT !.optional["VeteranIndicator"] = Some(<<49>>)]>>,
     <<"ID", ID_SUBFILE>>,
     <<"ZZ", [zza |-> <<81, 81, 61, 61>>]>>}

\* Scanned files: the payload of the tests; the same file with the DL
\* records in ascending tag order (the fixture); the payload followed by a
\* stray byte; a file holding one ID subfile.
ScannedFiles ==
    {PDF417_PAYLOAD,
     SubSeq(PDF417_PAYLOAD, 1, 41) \o DL_SUBFILE_BYTES
         \o SubSeq(PDF417_PAYLOAD, 276, Len(PDF417_PAYLOAD)),
     PDF417_PAYLOAD \o <<32>>,
     SubSeq(PDF417_PAYLOAD, 1, 19) \o <<48, 49, 73, 68, 48, 48, 51, 49>>
         \o encode_digits4(2 + Len(IdIntoSubfile(ID_SUBFILE).data))
         \o <<73, 68>> \o IdIntoSubfile(ID_SUBFILE).data}

\* The decoder type a reader of the file uses for a type code.
DecoderOf(subfile_type) ==
    IF subfile_type = <<68, 76>> THEN "DL"
    ELSE IF subfile_type = <<73, 68>> THEN "ID"
    ELSE IF subfile_type = <<90, 90>> THEN "ZZ"
    ELSE "none"

TypeCodeOf(D) ==
    IF D = "DL" THEN <<68, 76>> ELSE IF D = "ID" THEN <<73, 68>> ELSE <<90, 90>>

\* The file built again: FileBuilder::new with the decoded header fields,
\* one push per designator, in designator order, of the subfile decoded at
\* that designator.
DecodedSubfiles(f, bytes) ==
    [i \in 1..Len(f.subfile_designators) |->
        FileReadSubfileByIndex(f, bytes,
            DecoderOf(f.subfile_designators[i].subfile_type), i)]

RECURSIVE PushAll(_, _)
PushAll(builder, subfiles) ==
    IF subfiles = <<>> THEN builder
    ELSE PushAll(FileBuilderPush(builder, Head(subfiles)), Tail(subfiles))

Rebuild(f, bytes) ==
    LET ds == DecodedSubfiles(f, bytes)
    IN  FileBuilderWrite(PushAll(
            FileBuilderNew(f.header.issuer_id, f.header.version,
                           f.header.jurisdiction_version),
            [i \in 1..Len(ds) |->
                IntoSubfile(DecoderOf(f.subfile_designators[i].subfile_type),
                            ds[i].val.subfile)]))

InitFile ==
    /\ pc = "builder"
    /\ IdleCodec
    /\ \E h \in {<<0, 9, 0>>, <<636026, 10, 1>>} : fbuilder = FileBuilderNew(h[1], h[2], h[3])
    /\ pushed = <<>>
    /\ fbytes = <<>>
    /\ file = Err("")
    /\ fread = <<>>
    /\ rebuilt = <<>>
    /\ IdleIndex
    /\ IdleXi
    /\ IdleLib

FPush ==
    /\ pc = "builder"
    /\ Len(pushed) < MaxSubfiles
    /\ \E s \in PushPool :
           /\ fbuilder' = FileBuilderPush(fbuilder, IntoSubfile(s[1], s[2]))
           /\ pushed' = Append(pushed, s)
    /\ UNCHANGED <<pc, codecVars, fbytes, file, fread, rebuilt, indexVars, xiVars, libVars>>

FWrite ==
    /\ pc = "builder"
    /\ fbytes' = FileBuilderWrite(fbuilder)
    /\ pc' = "written"
    /\ UNCHANGED <<codecVars, fbuilder, pushed, file, fread, rebuilt, indexVars, xiVars, libVars>>

FScan ==
    /\ pc = "builder"
    /\ pushed = <<>>
    /\ fbuilder.header.issuer_id = 0
    /\ \E x \in ScannedFiles : fbytes' = x
    /\ pc' = "scanned"
    /\ UNCHANGED <<codecVars, fbuilder, pushed, file, fread, rebuilt, indexVars, xiVars, libVars>>

FNew ==
    /\ pc \in {"written", "scanned"}
    /\ file' = FileNew(fbytes)
    /\ pc' = IF pc = "written" THEN "parsed" ELSE "parsedScan"
    /\ UNCHANGED <<codecVars, fbuilder, pushed, fbytes, fread, rebuilt, indexVars, xiVars, libVars>>

FReadSubfile ==
    /\ pc \in {"parsed", "parsedScan"}
    /\ file.ok
    /\ \E D \in {"DL", "ID", "ZZ"}, t \in {"DL", "ID", "ZZ"} :
           LET r == FileReadSubfile(file.val, fbytes, D, TypeCodeOf(t))
           IN  /\ fread' = <<D, t, r, file.val.reader>>
               /\ file' = IF r.ok THEN [file EXCEPT !.val.reader = r.val.pos] ELSE file
    /\ UNCHANGED <<pc, codecVars, fbuilder, pushed, fbytes, rebuilt, indexVars, xiVars, libVars>>

FRebuild ==
    /\ pc \in {"parsed", "parsedScan"}
    /\ file.ok
    /\ \A i \in 1..Len(file.val.subfile_designators) :
           /\ DecoderOf(file.val.subfile_designators[i].subfile_type) # "none"
           /\ DecodedSubfiles(file.val, fbytes)[i].ok
    /\ rebuilt' = Rebuild(file.val, fbytes)
    /\ pc' = IF pc = "parsed" THEN "rebuilt" ELSE "rebuiltScan"
    /\ UNCHANGED <<codecVars, fbuilder, pushed, fbytes, file, fread, indexVars, xiVars, libVars>>

NextFile ==
    \/ FPush
    \/ FWrite
    \/ FScan
    \/ FNew
    \/ FReadSubfile
    \/ FRebuild

SpecFile == InitFile /\ [][NextFile]_vars

(***************************************************************************)
(* aamva/mod.rs: ProtectedComponentIndex.  The u32 is an integer, its bits *)
(* read and written arithmetically; a multibase string is the sequence of  *)
(* its character codes; a digest is the record of its algorithm, its       *)
(* length in bytes and the bytes it was computed from.                     *)
(***************************************************************************)
\* The ordering of [u8; 3] and Vec<u8>: lexicographic.
LexLess(a, b) ==
    \E k \in 1..(Len(a) + 1) :
        /\ \A j \in 1..(k - 1) : j <= Len(b) /\ a[j] = b[j]
        /\ \/ k = Len(a) + 1 /\ Len(b) >= k
           \/ k <= Len(a) /\ k <= Len(b) /\ a[k] < b[k]

\* slice::sort_unstable on byte strings: ascending; equal items are
\* indistinguishable, so their order is immaterial.
SortUnstable(items) ==
    LET before(i) == {j \in 1..Len(items) :
                         LexLess(items[j], items[i]) \/ (items[j] = items[i] /\ j < i)}
    IN  [p \in 1..Len(items) |->
            items[CHOOSE i \in 1..Len(items) : Cardinality(before(i)) = p - 1]]

\* DlMandatoryElement::LIST sorted by key id (a stable sort).
\* The list left in the order of declaration (no sort_by_key).
PROTECTED_COMPONENTS_LIST_as_declared ==
    [i \in 1..Len(DlMandatoryElement) |-> DlMandatoryElement[i][1]]

PROTECTED_COMPONENTS_LIST ==
    LET list == [i \in 1..Len(DlMandatoryElement) |-> DlMandatoryElement[i][1]]
        id(e) == IdOf(DlMandatoryElement, e)
        before(i) == {j \in 1..Len(list) :
                         LexLess(id(list[j]), id(list[i]))
                         \/ (id(list[j]) = id(list[i]) /\ j < i)}
    IN  [p \in 1..Len(list) |->
            list[CHOOSE i \in 1..Len(list) : Cardinality(before(i)) = p - 1]]

\* The map from an element to its 0-based position in the sorted list.
PROTECTED_COMPONENTS_INDEXES(e) ==
    (CHOOSE i \in 1..Len(PROTECTED_COMPONENTS_LIST) : PROTECTED_COMPONENTS_LIST[i] = e) - 1

\* The bit numbering of an earlier revision: 1u32 << i.
mask_of_index_lsb_first(i) == 2 ^ i

mask_of_index(i) == 2 ^ (23 - i)

mask_of(e) == mask_of_index(PROTECTED_COMPONENTS_INDEXES(e))

\* self.0 & mask != 0, for a mask of one bit.
HasBit(x, mask) == (x \div mask) % 2 = 1

PciNew == 0

PciContainsIndex(x, i) == HasBit(x, mask_of_index(i))

PciContains(x, e) == HasBit(x, mask_of(e))

PciInsert(x, e) == IF HasBit(x, mask_of(e)) THEN x ELSE x + mask_of(e)

\* A removal that flips the bit of the element (self.0 ^= mask).
PciRemoveFlipping(x, e) == IF HasBit(x, mask_of(e)) THEN x - mask_of(e) ELSE x + mask_of(e)

PciRemove(x, e) == IF HasBit(x, mask_of(e)) THEN x - mask_of(e) ELSE x

PciIter(x) ==
    LET kept == SelectSeq([i \in 1..Len(PROTECTED_COMPONENTS_LIST) |-> i],
                          LAMBDA i : PciContainsIndex(x, i - 1))
    IN  [k \in 1..Len(kept) |-> PROTECTED_COMPONENTS_LIST[kept[k]]]

\* The base64url alphabet: A-Z a-z 0-9 - _
B64URL ==
    [i \in 1..64 |-> IF i <= 26 THEN 64 + i
                     ELSE IF i <= 52 THEN 70 + i
                     ELSE IF i <= 62 THEN i - 5
                     ELSE IF i = 63 THEN 45 ELSE 95]

Sextet(c) == (CHOOSE i \in 1..64 : B64URL[i] = c) - 1

\* base64url without padding: 6 bits per character, most significant first.
Base64UrlEncode(bytes) ==
    LET byte(j) == IF j <= Len(bytes) THEN bytes[j] ELSE 0
        char(k) ==
            LET g == 3 * ((k - 1) \div 4)
                r == (k - 1) % 4
            IN  IF r = 0 THEN byte(g + 1) \div 4
                ELSE IF r = 1 THEN (byte(g + 1) % 4) * 16 + byte(g + 2) \div 16
                ELSE IF r = 2 THEN (byte(g + 2) % 16) * 4 + byte(g + 3) \div 64
                ELSE byte(g + 3) % 64
    IN  [k \in 1..((8 * Len(bytes) + 5) \div 6) |-> B64URL[char(k) + 1]]

\* The strict decoder: every character in the alphabet, no length of 1
\* modulo 4, and no bit set past the last whole byte.
Base64UrlDecode(chars) ==
    LET n == Len(chars)
        six(k) == IF k <= n THEN Sextet(chars[k]) ELSE 0
        byte(j) ==
            LET g == 4 * ((j - 1) \div 3)
                r == (j - 1) % 3
            IN  IF r = 0 THEN six(g + 1) * 4 + six(g + 2) \div 16
                ELSE IF r = 1 THEN (six(g + 2) % 16) * 16 + six(g + 3) \div 4
                ELSE (six(g + 3) % 4) * 64 + six(g + 4)
    IN  IF \E k \in 1..n : \A i \in 1..64 : B64URL[i] # chars[k] THEN Err("InvalidBaseString")
        ELSE IF n % 4 = 1 THEN Err("InvalidBaseString")
        ELSE IF n % 4 = 2 /\ six(n) % 16 # 0 THEN Err("InvalidBaseString")
        ELSE IF n % 4 = 3 /\ six(n) % 4 # 0 THEN Err("InvalidBaseString")
        ELSE Ok([j \in 1..((6 * n) \div 8) |-> byte(j)])

\* base16, lower case.
Base16LowerDecode(chars) ==
    LET n == Len(chars)
        isHex(c) == (c >= 48 /\ c <= 57) \/ (c >= 97 /\ c <= 102)
        nibble(c) == IF c <= 57 THEN c - 48 ELSE c - 87
    IN  IF \E k \in 1..n : ~isHex(chars[k]) THEN Err("InvalidBaseString")
        ELSE IF n % 2 = 1 THEN Err("InvalidBaseString")
        ELSE Ok([j \in 1..(n \div 2) |-> nibble(chars[2 * j - 1]) * 16 + nibble(chars[2 * j])])

\* MultibaseBuf::encode(Base::Base64Url, bytes): the base code 'u', then the
\* encoded bytes.
MultibaseEncodeBase64Url(bytes) == <<117>> \o Base64UrlEncode(bytes)

\* Multibase::decode: the first character selects the base ('u' base64url,
\* 'f' base16 lower case; the other bases of the library are not modelled
\* and no input of the model uses their codes).
MultibaseDecode(m) ==
    IF m = <<>> THEN Err("InvalidBaseString")
    ELSE IF Head(m) = 117 THEN Base64UrlDecode(Tail(m))
    ELSE IF Head(m) = 102 THEN Base16LowerDecode(Tail(m))
    ELSE Err("UnknownBase")

\* An encoder that writes the three bytes least significant first.
PciEncodeLittleEndian(x) ==
    MultibaseEncodeBase64Url(<<x % 256, (x \div 256) % 256, (x \div 65536) % 256>>)

\* ProtectedComponentIndex::encode: to_be_bytes()[1..], multibase base64url.
PciEncode(x) ==
    MultibaseEncodeBase64Url(<<(x \div 65536) % 256, (x \div 256) % 256, x % 256>>)

\* ProtectedComponentIndex::decode.
PciDecode(m) ==
    LET r == MultibaseDecode(m)
    IN  IF ~r.ok THEN ErrOf("InvalidProtectedComponentIndex", "Multibase")
        ELSE IF Len(r.val) # 3 THEN ErrOf("InvalidProtectedComponentIndex", "Invalid")
        ELSE Ok(r.val[1] * 65536 + r.val[2] * 256 + r.val[3])

Sha256(data) == [alg |-> "SHA-256", len |-> 32, of |-> data]

\* A canonicalization that ignores the index: every mandatory element.
to_optical_data_bytes_all(x, els) ==
    Sha256(Concat(SortUnstable(
        [i \in 1..Len(PROTECTED_COMPONENTS_LIST) |->
            IdOf(DlMandatoryElement, PROTECTED_COMPONENTS_LIST[i])
                \o els[PROTECTED_COMPONENTS_LIST[i]] \o <<10>>])))

to_optical_data_bytes(x, els) ==
    LET fields == PciIter(x)
        data_to_canonicalize ==
            [i \in 1..Len(fields) |->
                IdOf(DlMandatoryElement, fields[i]) \o els[fields[i]] \o <<10>>]
    IN  Sha256(Concat(SortUnstable(data_to_canonicalize)))

(***************************************************************************)
(* Scenario 3: a protected component index.  Elements are inserted and     *)
(* removed; the index is encoded and decoded, or a received multibase      *)
(* string is decoded; the optical data is computed from the index and the  *)
(* mandatory elements of a card.                                           *)
(***************************************************************************)
MaxInserted == 3

\* The mandatory elements of the cards: the test fixture's, the same with
\* another first name, and the same with an empty first name and the family
\* name 0xFF 0x00.
IndexElements ==
    {DL_SUBFILE.mandatory,
     [DL_SUBFILE.mandatory EXCEPT !["CustomerFirstName"] = <<74, 65, 78, 69>>],
     [DL_SUBFILE.mandatory EXCEPT !["CustomerFirstName"] = <<>>,
                                  !["CustomerFamilyName"] = <<255, 0>>]}

\* Received strings: "", "u", "ug", "ugg", "uggA", "uggB", "uggAg", "ugg!g",
\* "uggAg=", "uggAgggAg", "u____", "f820020", "f8200", "f82002", "fFFFFFF",
\* "!ggAg".
ReceivedMultibases ==
    {<<>>, <<117>>, <<117, 103>>, <<117, 103, 103>>, <<117, 103, 103, 65>>,
     <<117, 103, 103, 66>>, <<117, 103, 103, 65, 103>>, <<117, 103, 103, 33, 103>>,
     <<117, 103, 103, 65, 103, 61>>, <<117, 103, 103, 65, 103, 103, 103, 65, 103>>,
     <<117, 95, 95, 95, 95>>, <<102, 56, 50, 48, 48, 50, 48>>,
     <<102, 56, 50, 48, 48>>, <<102, 56, 50, 48, 48, 50>>,
     <<102, 70, 70, 70, 70, 70, 70>>, <<33, 103, 103, 65, 103>>}

InitIndex ==
    /\ pc = "index"
    /\ IdleCodec
    /\ IdleFile
    /\ pcindex = PciNew
    /\ inserted = {}
    /\ elements \in IndexElements
    /\ multibase = <<>>
    /\ decodedIdx = Err("")
    /\ optical = <<>>
    /\ IdleXi
    /\ IdleLib

IxInsert ==
    /\ pc = "index"
    /\ \E e \in Variants(DlMandatoryElement) :
           /\ Cardinality(inserted \cup {e}) <= MaxInserted
           /\ pcindex' = PciInsert(pcindex, e)
           /\ inserted' = inserted \cup {e}
    /\ UNCHANGED <<pc, codecVars, fileVars, elements, multibase, decodedIdx, optical, xiVars, libVars>>

IxRemove ==
    /\ pc = "index"
    /\ \E e \in Variants(DlMandatoryElement) :
           /\ pcindex' = PciRemove(pcindex, e)
           /\ inserted' = inserted \ {e}
    /\ UNCHANGED <<pc, codecVars, fileVars, elements, multibase, decodedIdx, optical, xiVars, libVars>>

IxEncode ==
    /\ pc = "index"
    /\ multibase' = PciEncode(pcindex)
    /\ pc' = "ixEncoded"
    /\ UNCHANGED <<codecVars, fileVars, pcindex, inserted, elements, decodedIdx, optical, xiVars, libVars>>

IxReceive ==
    /\ pc = "index"
    /\ inserted = {}
    /\ \E m \in ReceivedMultibases : multibase' = m
    /\ pc' = "ixReceived"
    /\ UNCHANGED <<codecVars, fileVars, pcindex, inserted, elements, decodedIdx, optical, xiVars, libVars>>

IxDecode ==
    /\ pc \in {"ixEncoded", "ixReceived"}
    /\ decodedIdx' = PciDecode(multibase)
    /\ pc' = IF pc = "ixEncoded" THEN "ixDecoded" ELSE "ixDecodedReceived"
    /\ UNCHANGED <<codecVars, fileVars, pcindex, inserted, elements, multibase, optical, xiVars, libVars>>

IxOpticalData ==
    /\ pc = "index"
    /\ optical' = to_optical_data_bytes(pcindex, elements)
    /\ pc' = "ixOptical"
    /\ UNCHANGED <<codecVars, fileVars, pcindex, inserted, elements, multibase, decodedIdx, xiVars, libVars>>

NextIndex ==
    \/ IxInsert
    \/ IxRemove
    \/ IxEncode
    \/ IxReceive
    \/ IxDecode
    \/ IxOpticalData

SpecIndex == InitIndex /\ [][NextIndex]_vars

(***************************************************************************)
(* ecdsa_xi_2023.rs: the hashing algorithm of the ecdsa-xi-2023 suite.     *)
(* Digests are symbolic: the record of the algorithm, the length and the   *)
(* bytes digested, so that two digests are equal exactly when they digest  *)
(* the same bytes with the same algorithm.  Canonical lines are sequences  *)
(* of integers.                                                            *)
(***************************************************************************)
Sha384(data) == [alg |-> "SHA-384", len |-> 48, of |-> data]

\* lines.fold(D::new(), |h, line| h.chain_update(line)): the bytes fed.
RECURSIVE ChainUpdate(_, _)
ChainUpdate(h, lines) ==
    IF lines = <<>> THEN h ELSE ChainUpdate(h \o Head(lines), Tail(lines))

\* The verification methods: P-256, P-384 and Ed25519 keys, and a public
\* key that does not decode.
Multikeys ==
    {[id |-> 1, public_key |-> [curve |-> "P256", key |-> 1]],
     [id |-> 2, public_key |-> [curve |-> "P384", key |-> 2]],
     [id |-> 3, public_key |-> [curve |-> "Ed25519", key |-> 3]],
     [id |-> 4, public_key |-> [curve |-> "undecodable", key |-> 4]]}

\* verification_method.public_key.decode()
MultikeyDecode(public_key) ==
    IF public_key.curve = "undecodable" THEN Err("InvalidMultikey")
    ELSE Ok([variant |-> public_key.curve, key |-> public_key.key])

\* A hash that leaves the extra information out.
EcdsaXi2023HashWithoutExtraInformation(input, verification_method) ==
    LET k == MultikeyDecode(verification_method.public_key)
    IN  IF ~k.ok THEN Err("InvalidKey")
        ELSE IF k.val.variant = "P256"
            THEN Ok([variant |-> "Sha256",
                     hash |-> <<Sha256(ChainUpdate(<<>>, input.configuration)),
                                Sha256(ChainUpdate(<<>>, input.claims))>>])
        ELSE IF k.val.variant = "P384"
            THEN Ok([variant |-> "Sha384",
                     hash |-> <<Sha384(ChainUpdate(<<>>, input.configuration)),
                                Sha384(ChainUpdate(<<>>, input.claims))>>])
        ELSE Err("InvalidKey")

\* EcdsaXi2023HashingAlgorithm::hash: the output is the sequence of the
\* three digests copied into it.
EcdsaXi2023Hash(input, verification_method) ==
    LET k == MultikeyDecode(verification_method.public_key)
    IN  IF ~k.ok THEN Err("InvalidKey")
        ELSE IF k.val.variant = "P256"
            THEN Ok([variant |-> "Sha256",
                     hash |-> <<Sha256(ChainUpdate(<<>>, input.configuration)),
                                Sha256(ChainUpdate(<<>>, input.claims)),
                                Sha256(input.extra_information)>>])
        ELSE IF k.val.variant = "P384"
            THEN Ok([variant |-> "Sha384",
                     hash |-> <<Sha384(ChainUpdate(<<>>, input.configuration)),
                                Sha384(ChainUpdate(<<>>, input.claims)),
                                Sha384(input.extra_information)>>])
        ELSE Err("InvalidKey")

\* The length in bytes of a hash output.
RECURSIVE HashLen(_)
HashLen(hash) == IF hash = <<>> THEN 0 ELSE Head(hash).len + HashLen(Tail(hash))

\* EcdsaXi2023TransformationAlgorithm::transform: the canonical claims of
\* the credential, the canonical lines of the proof configuration, and the
\* extra information.
CanonicalForm(credential) ==
    <<<<1, credential.issuer>>, <<2, 1>>>>
        \o [i \in 1..Len(credential.credential_status) |->
               <<3, credential.credential_status[i].base_url,
                 credential.credential_status[i].index>>]

NquadsLines(configuration) ==
    <<<<4, configuration.verification_method>>, <<5, configuration.created>>>>

Transform(credential, configuration, extra_information) ==
    [claims |-> CanonicalForm(credential),
     configuration |-> NquadsLines(configuration),
     extra_information |-> extra_information]

\* ES256OrES384, symbolic: a signature names the key that made it and the
\* message it was made over.
EcdsaSign(key, message) == [by |-> key, over |-> message]

EcdsaVerify(public_key, message, signature) ==
    signature.by = public_key.key /\ signature.over = message

\* The resolver of the verification methods.
Resolve(id) == CHOOSE m \in Multikeys : m.id = id

(***************************************************************************)
(* mrz.rs, terse_bitstring_status_list_entry.rs and                        *)
(* optical_barcode_credential: optical data, signature, verification.      *)
(***************************************************************************)
\* Optical data that leaves the third line out.
MrzCreateOpticalDataTwoLines(xi) ==
    Sha256(xi[1] \o <<10>> \o xi[2] \o <<10>>)

\* MachineReadableZone::create_optical_data
MrzCreateOpticalData(xi) ==
    Sha256(xi[1] \o <<10>> \o xi[2] \o <<10>> \o xi[3] \o <<10>>)

\* A status-list credential URL is its base and its path segments after
\* the base; a segment is a decimal number or a word.
NumberSegment(n) == [number |-> TRUE, value |-> n, word |-> ""]

WordSegment(w) == [number |-> FALSE, value |-> 0, word |-> w]

StatusPurposes == {"revocation", "suspension", "message"}

\* A panic ends the call without a result for the caller; it is kept apart
\* from the errors a call returns.
Panic(what) == ErrOf("panic", what)

\* a * b + c in u32, for a, b, c below 2^31: the product and the sum are
\* taken byte by byte, low byte first, so that no intermediate value leaves
\* the range of 32-bit integers.  `overflow` tells that the exact result
\* does not fit 32 bits; `wrapped` is the result modulo 2^32.
u32_mul_add(a, b, c) ==
    LET A == [i \in 0..3 |-> (a \div (256 ^ i)) % 256]
        B == [i \in 0..3 |-> (b \div (256 ^ i)) % 256]
        C == [i \in 0..7 |-> IF i < 4 THEN (c \div (256 ^ i)) % 256 ELSE 0]
        T(i, k) == IF k - i \in 0..3 THEN A[i] * B[k - i] ELSE 0
        Col(k) == T(0, k) + T(1, k) + T(2, k) + T(3, k) + C[k]
        t0 == Col(0)
        t1 == Col(1) + (t0 \div 256)
        t2 == Col(2) + (t1 \div 256)
        t3 == Col(3) + (t2 \div 256)
        t4 == Col(4) + (t3 \div 256)
        t5 == Col(5) + (t4 \div 256)
        t6 == Col(6) + (t5 \div 256)
    IN  [overflow |-> t3 \div 256 # 0 \/ t4 # 0 \/ t5 # 0 \/ t6 # 0,
         wrapped |-> (t0 % 256) + 256 * (t1 % 256) + 65536 * (t2 % 256)
                         + 16777216 * (t3 % 256)]

\* from_bitstring_status_list_entry with the errors looked for from the
\* status purpose backwards.
FromBitstringStatusListEntryPurposeFirst(status, list_len) ==
    LET path == status.status_list_credential.path
        n == Len(path)
        index == u32_mul_add(path[n].value, list_len, status.status_list_index)
    IN  IF n >= 2 /\ ~path[n - 1].number /\ path[n - 1].word \in StatusPurposes
               /\ path[n - 1].word # status.status_purpose
            THEN Err("UnexpectedStatusPurpose")
        ELSE IF n >= 2 /\ (path[n - 1].number \/ path[n - 1].word \notin StatusPurposes)
            THEN Err("InvalidStatusPurpose")
        ELSE IF n = 1 THEN Err("MissingStatusPurpose")
        ELSE IF n = 0 THEN Err("MissingListIndex")
        ELSE IF ~path[n].number THEN Err("InvalidListIndex")
        ELSE IF index.overflow /\ overflow_checks THEN Panic("attempt to multiply with overflow")
        ELSE Ok([base_url |-> [base |-> status.status_list_credential.base,
                               path |-> SubSeq(path, 1, n - 2)],
                 index |-> index.wrapped])

\* TerseBitstringStatusListEntry::from_bitstring_status_list_entry.  The
\* terse index is computed in u32 without a check: where the exact value
\* does not fit, a build with overflow checks panics and a build without
\* them keeps the value modulo 2^32.
FromBitstringStatusListEntry(status, list_len) ==
    LET path == status.status_list_credential.path
        n == Len(path)
        index == u32_mul_add(path[n].value, list_len, status.status_list_index)
    IN  IF n = 0 THEN Err("MissingListIndex")
        ELSE IF ~path[n].number THEN Err("InvalidListIndex")
        ELSE IF n = 1 THEN Err("MissingStatusPurpose")
        ELSE IF path[n - 1].number \/ path[n - 1].word \notin StatusPurposes
            THEN Err("InvalidStatusPurpose")
        ELSE IF path[n - 1].word # status.status_purpose THEN Err("UnexpectedStatusPurpose")
        ELSE IF index.overflow /\ overflow_checks THEN Panic("attempt to multiply with overflow")
        ELSE Ok([base_url |-> [base |-> status.status_list_credential.base,
                               path |-> SubSeq(path, 1, n - 2)],
                 index |-> index.wrapped])

\* TerseBitstringStatusListEntry::to_bitstring_status_list_entry: the URL
\* is the base URL followed by the purpose and the list index.
ToBitstringStatusListEntry(self, info) ==
    IF info.list_len = 0 THEN Panic("attempt to divide by zero")
    ELSE Ok([status_purpose |-> info.status_purpose,
             status_list_credential |->
                 [base |-> self.base_url.base,
                  path |-> self.base_url.path
                               \o <<WordSegment(info.status_purpose),
                                    NumberSegment(self.index \div info.list_len)>>],
             status_list_index |-> self.index % info.list_len])

\* OpticalBarcodeCredential::new(None, issuer, credential_subject)
OpticalBarcodeCredentialNew(issuer) ==
    [issuer |-> issuer, credential_status |-> <<>>]

\* sign_from_optical_data, with EcdsaXi2023.sign_with
sign_from_optical_data(unsigned, optical_data, options, params) ==
    LET terse == FromBitstringStatusListEntry(params.status[1].entry, params.status[1].list_len)
        credential ==
            IF params.status = None THEN unsigned
            ELSE [unsigned EXCEPT !.credential_status = Append(@, terse.val)]
        method == Resolve(options.verification_method)
        h == EcdsaXi2023Hash(Transform(credential, options, optical_data), method)
    IN  IF params.status # None /\ terse.err = "panic" THEN terse
        ELSE IF params.status # None /\ ~terse.ok THEN ErrOf("SignatureError", terse.err)
        ELSE IF ~h.ok THEN ErrOf("SignatureError", h.err)
        ELSE Ok([credential |-> credential,
                 proof |-> [configuration |-> options,
                            proof_value |-> EcdsaSign(params.signer, h.val)]])

create_from_optical_data(optical_data, issuer, options, params) ==
    sign_from_optical_data(OpticalBarcodeCredentialNew(issuer), optical_data, options, params)

sign(unsigned, extra_information, options, params) ==
    sign_from_optical_data(unsigned, MrzCreateOpticalData(extra_information), options, params)

create(extra_information, issuer, options, params) ==
    create_from_optical_data(MrzCreateOpticalData(extra_information), issuer, options, params)

\* TerseStatusListProvider::get_status of a client that answers every entry
\* alike.
GetStatus(client, terse_entry) ==
    IF client.err THEN Err("ProviderError") ELSE Ok([purpose |-> client.purpose, status |-> client.status])

\* A loop that rejects on a revocation list only.
RECURSIVE StatusLoopRevocationOnly(_, _)
StatusLoopRevocationOnly(entries, status_list_client) ==
    LET r == GetStatus(status_list_client[1], Head(entries))
    IN  IF entries = <<>> THEN Ok(<<>>)
        ELSE IF status_list_client = None THEN Err("no status list parameters")
        ELSE IF ~r.ok THEN Err(r.err)
        ELSE IF r.val.status = None THEN Err("missing status")
        ELSE IF r.val.purpose = "revocation" /\ r.val.status[1] # 0 THEN Err("revoked")
        ELSE StatusLoopRevocationOnly(Tail(entries), status_list_client)

\* verify_from_optical_data: the loop over the credential's status entries.
RECURSIVE StatusLoop(_, _)
StatusLoop(entries, status_list_client) ==
    LET r == GetStatus(status_list_client[1], Head(entries))
    IN  IF entries = <<>> THEN Ok(<<>>)
        ELSE IF status_list_client = None THEN Err("no status list parameters")
        ELSE IF ~r.ok THEN Err(r.err)
        ELSE IF r.val.status = None THEN Err("missing status")
        ELSE IF r.val.purpose = "revocation" /\ r.val.status[1] # 0 THEN Err("revoked")
        ELSE IF r.val.purpose = "suspension" /\ r.val.status[1] # 0 THEN Err("suspended")
        ELSE StatusLoop(Tail(entries), status_list_client)

\* vc.verify(params): Ok(Ok(())) for a valid proof, Ok(Err(InvalidProof))
\* for an invalid one.
VcVerify(v, extra_information) ==
    LET method == Resolve(v.proof.configuration.verification_method)
        h == EcdsaXi2023Hash(Transform(v.credential, v.proof.configuration, extra_information),
                             method)
    IN  IF ~h.ok THEN Err(h.err)
        ELSE IF EcdsaVerify(method.public_key, h.val, v.proof.proof_value) THEN Ok(Ok(<<>>))
        ELSE Ok(Err("InvalidProof"))

verify_from_optical_data(v, optical_data, params) ==
    LET gate == StatusLoop(v.credential.credential_status, params.status_list_client)
    IN  IF ~gate.ok THEN gate ELSE VcVerify(v, optical_data)

\* verify_from_optical_data: the calls made to the status list provider
\* and to the signature verification, in the order they are made.  The loop
\* over the status entries queries the provider entry by entry and ends
\* with the first entry that fails; vc.verify is called after the loop.
RECURSIVE StatusLoopCalls(_, _, _)
StatusLoopCalls(entries, status_list_client, k) ==
    LET r == StatusLoop(<<Head(entries)>>, status_list_client)
    IN  IF entries = <<>> \/ status_list_client = None THEN <<>>
        ELSE <<[call |-> "get_status", entry |-> k]>>
                 \o (IF r.ok THEN StatusLoopCalls(Tail(entries), status_list_client, k + 1)
                     ELSE <<>>)

verify_from_optical_data_calls(v, optical_data, params) ==
    LET gate == StatusLoop(v.credential.credential_status, params.status_list_client)
    IN  StatusLoopCalls(v.credential.credential_status, params.status_list_client, 1)
            \o (IF gate.ok THEN <<[call |-> "vc.verify", entry |-> 0]>> ELSE <<>>)

verify(v, extra_information, params) ==
    verify_from_optical_data(v, MrzCreateOpticalData(extra_information), params)

\* AamvaDriversLicenseScannableInformation::create_optical_data: the
\* protected component index of the subject is decoded and unwrapped.
AamvaCreateOpticalData(self, xi) ==
    LET index == PciDecode(self.protected_component_index)
    IN  IF ~index.ok THEN Panic("unwrap on an Err value")
        ELSE Ok(to_optical_data_bytes(index.val, xi))

\* sign, of a credential whose subject is AAMVA scannable information
AamvaSign(unsigned, extra_information, options, params) ==
    LET optical_data == AamvaCreateOpticalData(unsigned.credential_subject, extra_information)
    IN  IF ~optical_data.ok THEN optical_data
        ELSE sign_from_optical_data(unsigned, optical_data.val, options, params)

\* verify, of a credential whose subject is AAMVA scannable information
AamvaVerify(v, extra_information, params) ==
    LET optical_data ==
            AamvaCreateOpticalData(v.credential.credential_subject, extra_information)
    IN  IF ~optical_data.ok THEN optical_data
        ELSE verify_from_optical_data(v, optical_data.val, params)

(***************************************************************************)
(* Scenario 4: ecdsa-xi-2023.  The hashing algorithm is applied to         *)
(* canonical lines and extra information; a credential is created or       *)
(* signed over an MRZ and verified against an MRZ.                         *)
(***************************************************************************)
\* tests/mrz.rs: DATA
DATA ==
    <<<<73, 65, 85, 84, 79, 48, 48, 48, 48, 48, 48, 55, 48, 49, 48, 83, 82, 67, 48, 48, 48, 48, 48, 48, 48, 55, 48, 49, 60, 60>>,
      <<56, 56, 48, 52, 49, 57, 50, 77, 50, 54, 48, 49, 48, 53, 56, 78, 79, 84, 60, 60, 60, 60, 60, 60, 60, 60, 60, 60, 60, 53>>,
      <<83, 77, 73, 84, 72, 60, 60, 74, 79, 72, 78, 60, 60, 60, 60, 60, 60, 60, 60, 60, 60, 60, 60, 60, 60, 60, 60, 60, 60, 60>>>>

\* The same MRZ with byte i of line l replaced by b.
Altered(m, l, i, b) == [m EXCEPT ![l][i] = b]

\* The bytes written over a byte of the MRZ.
AlterationBytes == {0, 60, 88}

Alterations(m) ==
    {Altered(m, l, i, b) : l \in 1..3, i \in 1..30, b \in AlterationBytes} \ {m}

\* Canonical lines handed to the hashing algorithm.
LineLists ==
    {<<>>, <<<<1>>>>, <<<<1>>, <<2>>>>, <<<<1, 2>>>>, <<<<2>>, <<1>>>>}

ExtraInformations == {<<>>, <<7>>, <<7, 7>>}

\* SignatureParameters::status
StatusEntries ==
    {None,
     Some([entry |-> [status_purpose |-> "revocation", status_list_index |-> 5,
                      status_list_credential |->
                          [base |-> 1, path |-> <<WordSegment("revocation"), NumberSegment(2)>>]],
           list_len |-> 8]),
     Some([entry |-> [status_purpose |-> "message", status_list_index |-> 1,
                      status_list_credential |->
                          [base |-> 1, path |-> <<WordSegment("message"), NumberSegment(0)>>]],
           list_len |-> 8]),
     Some([entry |-> [status_purpose |-> "revocation", status_list_index |-> 5,
                      status_list_credential |-> [base |-> 1, path |-> <<WordSegment("list")>>]],
           list_len |-> 8])}

\* VerificationParameters::status_list_client
StatusListClients ==
    {None}
    \cup {Some([err |-> FALSE, purpose |-> p, status |-> st]) :
             p \in StatusPurposes, st \in {None, Some(0), Some(1)}}
    \cup {Some([err |-> TRUE, purpose |-> "revocation", status |-> None])}

InitXi ==
    /\ pc = "xi"
    /\ IdleCodec
    /\ IdleFile
    /\ IdleIndex
    /\ xihash = <<>>
    /\ signedMrz = <<>>
    /\ vc = Err("")
    /\ shown = <<>>
    /\ vresult = <<>>
    /\ okSame = FALSE
    /\ IdleLib

XiHash ==
    /\ pc = "xi"
    /\ \E m \in Multikeys, c \in LineLists, d \in LineLists, x \in ExtraInformations :
           LET input == [configuration |-> c, claims |-> d, extra_information |-> x]
           IN  xihash' = [verification_method |-> m, input |-> input,
                          output |-> EcdsaXi2023Hash(input, m)]
    /\ pc' = "hashed"
    /\ UNCHANGED <<codecVars, fileVars, indexVars, libVars, signedMrz, vc, shown, vresult, okSame>>

XiCreate ==
    /\ pc = "xi"
    /\ \E m \in Multikeys, st \in StatusEntries :
           vc' = create(DATA, 1, [verification_method |-> m.id, created |-> 1],
                        [signer |-> m.public_key.key, status |-> st])
    /\ signedMrz' = DATA
    /\ pc' = "signed"
    /\ UNCHANGED <<codecVars, fileVars, indexVars, libVars, xihash, shown, vresult, okSame>>

XiSign ==
    /\ pc = "xi"
    /\ \E m \in Multikeys, st \in StatusEntries, m0 \in {DATA, Altered(DATA, 3, 1, 74)} :
           /\ vc' = sign([issuer |-> 2, credential_status |-> <<>>], m0,
                         [verification_method |-> m.id, created |-> 2],
                         [signer |-> m.public_key.key, status |-> st])
           /\ signedMrz' = m0
    /\ pc' = "signed"
    /\ UNCHANGED <<codecVars, fileVars, indexVars, libVars, xihash, shown, vresult, okSame>>

\* One verify, or two of which the first is against the signed MRZ.
XiVerify ==
    /\ pc = "signed" \/ (pc = "verified" /\ shown = signedMrz)
    /\ vc.ok
    /\ \E m \in {signedMrz} \cup Alterations(signedMrz), c \in StatusListClients :
           LET r == verify(vc.val, m, [status_list_client |-> c])
           IN  /\ shown' = m
               /\ vresult' = [status_list_client |-> c, result |-> r,
                              calls |-> verify_from_optical_data_calls(
                                            vc.val, MrzCreateOpticalData(m),
                                            [status_list_client |-> c])]
               /\ okSame' = (okSame \/ (m = signedMrz /\ r = Ok(Ok(<<>>))))
    /\ pc' = IF pc = "signed" THEN "verified" ELSE "verifiedAgain"
    /\ UNCHANGED <<codecVars, fileVars, indexVars, libVars, xihash, signedMrz, vc>>

\* The protected component indexes of the AAMVA subjects: received
\* strings, and the encoded index of the first name and the date of birth.
SubjectIndexes ==
    ReceivedMultibases
    \cup {PciEncode(PciInsert(PciInsert(PciNew, "CustomerFirstName"), "DateOfBirth"))}

\* sign(unsigned, extra_information, options, params), AAMVA subject
XiAamvaSign ==
    /\ pc = "xi"
    /\ \E m \in Multikeys, i \in SubjectIndexes, els \in IndexElements :
           LET subject == [protected_component_index |-> i]
               unsigned == [issuer |-> 2, credential_status |-> <<>>,
                            credential_subject |-> subject]
           IN  aamvaCall' =
                   [op |-> "sign", subject |-> subject,
                    result |-> AamvaSign(unsigned, els,
                                         [verification_method |-> m.id, created |-> 2],
                                         [signer |-> m.public_key.key, status |-> None])]
    /\ pc' = "aamvaSigned"
    /\ UNCHANGED exceptAamva

\* verify(vc, extra_information, params), AAMVA subject.  The credential
\* was made by create_from_optical_data, which takes the optical data as
\* it is given and does not look at the index of the subject.
XiAamvaVerify ==
    /\ pc = "xi"
    /\ \E m \in Multikeys, i \in SubjectIndexes, els \in IndexElements,
          c \in {None, Some([err |-> FALSE, purpose |-> "revocation", status |-> Some(0)])} :
           LET subject == [protected_component_index |-> i]
               unsigned == [issuer |-> 2, credential_status |-> <<>>,
                            credential_subject |-> subject]
               index == PciInsert(PciInsert(PciNew, "CustomerFirstName"), "DateOfBirth")
               signed == sign_from_optical_data(
                             unsigned, to_optical_data_bytes(index, els),
                             [verification_method |-> m.id, created |-> 2],
                             [signer |-> m.public_key.key, status |-> None])
           IN  /\ signed.ok
               /\ aamvaCall' =
                      [op |-> "verify", subject |-> subject,
                       result |-> AamvaVerify(signed.val, els, [status_list_client |-> c])]
    /\ pc' = "aamvaVerified"
    /\ UNCHANGED exceptAamva

NextXi ==
    \/ XiHash
    \/ XiCreate
    \/ XiSign
    \/ XiVerify
    \/ XiAamvaSign
    \/ XiAamvaVerify

SpecXi == InitXi /\ [][NextXi]_vars

(***************************************************************************)
(* mrz.rs: the QR-code payload of a compressed credential.  A string is    *)
(* the sequence of its character codes.                                    *)
(***************************************************************************)
BASE_45_TABLE ==
    <<48, 49, 50, 51, 52, 53, 54, 55, 56, 57, 65, 66, 67, 68, 69, 70, 71, 72, 73, 74, 75, 76, 77, 78,
    79, 80, 81, 82, 83, 84, 85, 86, 87, 88, 89, 90, 32, 36, 37, 42, 43, 45, 46, 47, 58>>

BASE_45_REVERSE_TABLE ==
    [c \in {BASE_45_TABLE[i] : i \in 1..45} |-> (CHOOSE i \in 1..45 : BASE_45_TABLE[i] = c) - 1]

\* base45_encode_to with the digits of a chunk written most significant
\* first.
base45_encode_to_most_significant_first(bytes) ==
    LET n == Len(bytes)
        Value(j) == IF 2 * j + 2 <= n THEN bytes[2 * j + 1] * 256 + bytes[2 * j + 2]
                    ELSE bytes[2 * j + 1]
        Digit(j, p) == IF 2 * j + 2 <= n
                       THEN (IF p = 2 THEN Value(j) % 45
                             ELSE IF p = 1 THEN (Value(j) \div 45) % 45
                             ELSE Value(j) \div 2025)
                       ELSE (IF p = 1 THEN Value(j) % 45 ELSE Value(j) \div 45)
    IN  [k \in 1..(3 * (n \div 2) + 2 * (n % 2)) |->
            BASE_45_TABLE[Digit((k - 1) \div 3, (k - 1) % 3) + 1]]

\* base45_encode_to: the characters pushed to the buffer.  Chunk j is made
\* of bytes 2j+1 and 2j+2, or of byte 2j+1 alone at the end; character k is
\* digit (k-1) mod 3 of chunk (k-1) div 3, least significant digit first.
base45_encode_to(bytes) ==
    LET n == Len(bytes)
        Value(j) == IF 2 * j + 2 <= n THEN bytes[2 * j + 1] * 256 + bytes[2 * j + 2]
                    ELSE bytes[2 * j + 1]
        Digit(j, p) == IF p = 0 THEN Value(j) % 45
                       ELSE IF p = 1 /\ 2 * j + 2 <= n THEN (Value(j) \div 45) % 45
                       ELSE IF p = 1 THEN Value(j) \div 45
                       ELSE Value(j) \div 2025
    IN  [k \in 1..(3 * (n \div 2) + 2 * (n % 2)) |->
            BASE_45_TABLE[Digit((k - 1) \div 3, (k - 1) % 3) + 1]]

\* MachineReadableZone::encode_qr_code_payload, with multibase45_encode:
\* "VC1-", the multibase prefix 'R', the base45 characters.
encode_qr_code_payload(bytes) ==
    <<86, 67, 49, 45>> \o (<<82>> \o base45_encode_to(bytes))

\* base45_decode_to: the bytes pushed to the buffer.  Chunk j is made of
\* characters 3j+1..3j+3, or of the last two characters; a chunk of three
\* gives two bytes unless its value leaves u16, a chunk of two gives the
\* low byte of its value, a chunk of one is an error.
base45_decode_to(value) ==
    LET n == Len(value)
        Known == \A i \in 1..n : value[i] \in DOMAIN BASE_45_REVERSE_TABLE
        D(i) == BASE_45_REVERSE_TABLE[value[i]]
        Three(j) == D(3 * j + 1) + D(3 * j + 2) * 45 + 45 * (D(3 * j + 3) * 45)
        Two(j) == D(3 * j + 1) + D(3 * j + 2) * 45
    IN  IF ~Known THEN Err("InvalidBaseString")
        ELSE IF n % 3 = 1 THEN Err("InvalidBaseString")
        ELSE IF \E j \in 0..((n \div 3) - 1) : Three(j) > 65535 THEN Err("InvalidBaseString")
        ELSE Ok([k \in 1..(2 * (n \div 3) + (IF n % 3 = 2 THEN 1 ELSE 0)) |->
                    LET j == (k - 1) \div 2
                    IN  IF 3 * j + 3 > n THEN Two(j) % 256
                        ELSE IF (k - 1) % 2 = 0 THEN Three(j) \div 256
                        ELSE Three(j) % 256])

\* multibase45_decode
multibase45_decode(value) ==
    IF value = <<>> THEN Err("InvalidBaseString")
    ELSE IF value[1] = 82 THEN base45_decode_to(Tail(value))
    ELSE Err("UnknownBase")

\* MachineReadableZone::decode_qr_code_payload
decode_qr_code_payload(value) ==
    LET r == multibase45_decode(SubSeq(value, 5, Len(value)))
    IN  IF Len(value) < 4 \/ SubSeq(value, 1, 4) # <<86, 67, 49, 45>>
            THEN Err("InvalidQrCodePayload")
        ELSE IF ~r.ok THEN Err("InvalidQrCodePayload")
        ELSE r

(***************************************************************************)
(* aamva/dlid/types.rs: the field types of the data elements.              *)
(***************************************************************************)
CharClasses == {"Alpha", "Numeric", "AlphaNumeric", "AlphaNumericSpecial"}

\* CharClass::contains of Alpha, Numeric, AlphaNumeric, AlphaNumericSpecial
CharClassContains(C, c) ==
    LET is_ascii_alphabetic == c \in 65..90 \/ c \in 97..122
        is_ascii_digit == c \in 48..57
    IN  CASE C = "Alpha" -> is_ascii_alphabetic
          [] C = "Numeric" -> is_ascii_digit
          [] C = "AlphaNumeric" -> is_ascii_alphabetic \/ is_ascii_digit
          [] C = "AlphaNumericSpecial" -> c <= 127

\* Fixed::<C, N>::new
FixedNew(C, N, bytes) ==
    IF Len(bytes) # N THEN ErrOf("InvalidFieldValue", bytes)
    ELSE IF ~(\A i \in 1..Len(bytes) : CharClassContains(C, bytes[i]))
        THEN ErrOf("InvalidFieldValue", bytes)
    ELSE Ok([data |-> [i \in 1..N |-> bytes[i]]])

\* Fixed::as_bytes
FixedAsBytes(self) == self.data

\* Variable::<C, N>::new: the data is an array of N bytes, zero past len.
VariableNew(C, N, bytes) ==
    LET len == Len(bytes)
    IN  IF len > N THEN ErrOf("InvalidFieldValue", bytes)
        ELSE IF ~(\A i \in 1..len : CharClassContains(C, bytes[i]))
            THEN ErrOf("InvalidFieldValue", bytes)
        ELSE Ok([data |-> [i \in 1..N |-> IF i <= len THEN bytes[i] ELSE 0], len |-> len])

\* Variable::as_bytes that returns the whole array.
VariableAsBytesWithPadding(self) == self.data

\* Variable::as_bytes
VariableAsBytes(self) == SubSeq(self.data, 1, self.len)

\* The field types declared for the tags in dl.rs and id.rs: DAQ V25Ans, DCS
\* V40Ans, DDE F1A, DAC V40Ans, DDF F1A, DAD V40Ans, DDG F1A, DCA V6Ans, DCB
\* V12Ans, DCD V5Ans, DBD F8N, DBB F8N, DBA F8N, DBC F1N, DAU F6Ans, DAY F3A,
\* DAG V35Ans, DAI V20Ans, DAJ F2A, DAK F11Ans, DCF V25Ans, DCG F3A, DAH
\* V35Ans, DAW F3N, DAX F3N, DAZ V12A, DCI V33A, DCJ V25Ans, DCK V25Ans, DBN
\* V10Ans, DBG V15Ans, DBS V5Ans, DCU V5Ans, DCE F1N, DCL V3A, DCM F4An, DCN
\* F5An, DCO F12An, DCP V50Ans, DCQ V50Ans, DCR V50Ans, DDA F1A, DDB F8N, DDC
\* F8N, DDD F1N, DDH F8N, DDI F8N, DDJ F8N, DDK F1N, DDL F1N.
DeclaredFieldTypes ==
    {[tag |-> <<68, 65, 81>>, type |-> "Variable", N |-> 25, C |-> "AlphaNumericSpecial"],
     [tag |-> <<68, 67, 83>>, type |-> "Variable", N |-> 40, C |-> "AlphaNumericSpecial"],
     [tag |-> <<68, 68, 69>>, type |-> "Fixed", N |-> 1, C |-> "Alpha"],
     [tag |-> <<68, 65, 67>>, type |-> "Variable", N |-> 40, C |-> "AlphaNumericSpecial"],
     [tag |-> <<68, 68, 70>>, type |-> "Fixed", N |-> 1, C |-> "Alpha"],
     [tag |-> <<68, 65, 68>>, type |-> "Variable", N |-> 40, C |-> "AlphaNumericSpecial"],
     [tag |-> <<68, 68, 71>>, type |-> "Fixed", N |-> 1, C |-> "Alpha"],
     [tag |-> <<68, 67, 65>>, type |-> "Variable", N |-> 6, C |-> "AlphaNumericSpecial"],
     [tag |-> <<68, 67, 66>>, type |-> "Variable", N |-> 12, C |-> "AlphaNumericSpecial"],
     [tag |-> <<68, 67, 68>>, type |-> "Variable", N |-> 5, C |-> "AlphaNumericSpecial"],
     [tag |-> <<68, 66, 68>>, type |-> "Fixed", N |-> 8, C |-> "Numeric"],
     [tag |-> <<68, 66, 66>>, type |-> "Fixed", N |-> 8, C |-> "Numeric"],
     [tag |-> <<68, 66, 65>>, type |-> "Fixed", N |-> 8, C |-> "Numeric"],
     [tag |-> <<68, 66, 67>>, type |-> "Fixed", N |-> 1, C |-> "Numeric"],
     [tag |-> <<68, 65, 85>>, type |-> "Fixed", N |-> 6, C |-> "AlphaNumericSpecial"],
     [tag |-> <<68, 65, 89>>, type |-> "Fixed", N |-> 3, C |-> "Alpha"],
     [tag |-> <<68, 65, 71>>, type |-> "Variable", N |-> 35, C |-> "AlphaNumericSpecial"],
     [tag |-> <<68, 65, 73>>, type |-> "Variable", N |-> 20, C |-> "AlphaNumericSpecial"],
     [tag |-> <<68, 65, 74>>, type |-> "Fixed", N |-> 2, C |-> "Alpha"],
     [tag |-> <<68, 65, 75>>, type |-> "Fixed", N |-> 11, C |-> "AlphaNumericSpecial"],
     [tag |-> <<68, 67, 70>>, type |-> "Variable", N |-> 25, C |-> "AlphaNumericSpecial"],
     [tag |-> <<68, 67, 71>>, type |-> "Fixed", N |-> 3, C |-> "Alpha"],
     [tag |-> <<68, 65, 72>>, type |-> "Variable", N |-> 35, C |-> "AlphaNumericSpecial"],
     [tag |-> <<68, 65, 87>>, type |-> "Fixed", N |-> 3, C |-> "Numeric"],
     [tag |-> <<68, 65, 88>>, type |-> "Fixed", N |-> 3, C |-> "Numeric"],
     [tag |-> <<68, 65, 90>>, type |-> "Variable", N |-> 12, C |-> "Alpha"],
     [tag |-> <<68, 67, 73>>, type |-> "Variable", N |-> 33, C |-> "Alpha"],
     [tag |-> <<68, 67, 74>>, type |-> "Variable", N |-> 25, C |-> "AlphaNumericSpecial"],
     [tag |-> <<68, 67, 75>>, type |-> "Variable", N |-> 25, C |-> "AlphaNumericSpecial"],
     [tag |-> <<68, 66, 78>>, type |-> "Variable", N |-> 10, C |-> "AlphaNumericSpecial"],
     [tag |-> <<68, 66, 71>>, type |-> "Variable", N |-> 15, C |-> "AlphaNumericSpecial"],
     [tag |-> <<68, 66, 83>>, type |-> "Variable", N |-> 5, C |-> "AlphaNumericSpecial"],
     [tag |-> <<68, 67, 85>>, type |-> "Variable", N |-> 5, C |-> "AlphaNumericSpecial"],
     [tag |-> <<68, 67, 69>>, type |-> "Fixed", N |-> 1, C |-> "Numeric"],
     [tag |-> <<68, 67, 76>>, type |-> "Variable", N |-> 3, C |-> "Alpha"],
     [tag |-> <<68, 67, 77>>, type |-> "Fixed", N |-> 4, C |-> "AlphaNumeric"],
     [tag |-> <<68, 67, 78>>, type |-> "Fixed", N |-> 5, C |-> "AlphaNumeric"],
     [tag |-> <<68, 67, 79>>, type |-> "Fixed", N |-> 12, C |-> "AlphaNumeric"],
     [tag |-> <<68, 67, 80>>, type |-> "Variable", N |-> 50, C |-> "AlphaNumericSpecial"],
     [tag |-> <<68, 67, 81>>, type |-> "Variable", N |-> 50, C |-> "AlphaNumericSpecial"],
     [tag |-> <<68, 67, 82>>, type |-> "Variable", N |-> 50, C |-> "AlphaNumericSpecial"],
     [tag |-> <<68, 68, 65>>, type |-> "Fixed", N |-> 1, C |-> "Alpha"],
     [tag |-> <<68, 68, 66>>, type |-> "Fixed", N |-> 8, C |-> "Numeric"],
     [tag |-> <<68, 68, 67>>, type |-> "Fixed", N |-> 8, C |-> "Numeric"],
     [tag |-> <<68, 68, 68>>, type |-> "Fixed", N |-> 1, C |-> "Numeric"],
     [tag |-> <<68, 68, 72>>, type |-> "Fixed", N |-> 8, C |-> "Numeric"],
     [tag |-> <<68, 68, 73>>, type |-> "Fixed", N |-> 8, C |-> "Numeric"],
     [tag |-> <<68, 68, 74>>, type |-> "Fixed", N |-> 8, C |-> "Numeric"],
     [tag |-> <<68, 68, 75>>, type |-> "Fixed", N |-> 1, C |-> "Numeric"],
     [tag |-> <<68, 68, 76>>, type |-> "Fixed", N |-> 1, C |-> "Numeric"]}

(***************************************************************************)
(* Scenario 5: status list entries.  A bit-string status list entry is     *)
(* made terse and the terse entry is converted back.                       *)
(***************************************************************************)
\* The lengths of a status list; 131072 is the length of a 16 KB list.
ListLens == {0, 1, 8, 131072}

\* The numbers of the lists of an issuer.
ListIndexes == {0, 2, 16383, 32768}

\* The indexes of a credential in a list.
WithinIndexes == {0, 5, 131071}

\* The paths of the status list credential URLs.
StatusPaths ==
    {<<WordSegment(p), NumberSegment(i)>> : p \in StatusPurposes, i \in ListIndexes}
    \cup {<<WordSegment("lists"), WordSegment(p), NumberSegment(i)>> :
              p \in StatusPurposes, i \in ListIndexes}
    \cup {<<>>, <<WordSegment("list")>>, <<NumberSegment(2)>>,
          <<WordSegment("list"), NumberSegment(2)>>,
          <<NumberSegment(1), NumberSegment(2)>>,
          <<WordSegment("revocation"), WordSegment("list")>>,
          <<WordSegment("list"), WordSegment("list")>>}

InitStatus ==
    /\ pc = "status"
    /\ IdleCore
    /\ IdleAamva
    /\ IdleRecord
    /\ IdleQr
    /\ IdleField
    /\ IdleBuilder
    /\ IdleHeader
    /\ IdleReader
    /\ overflow_checks \in BOOLEAN
    /\ statusCall = <<>>
    /\ terseEntry = Err("")
    /\ expanded = <<>>

\* TerseBitstringStatusListEntry::from_bitstring_status_list_entry(status, list_len)
StCompress ==
    /\ pc = "status"
    /\ \E p \in StatusPurposes, path \in StatusPaths, w \in WithinIndexes, l \in ListLens :
          LET status == [status_purpose |-> p, status_list_index |-> w,
                         status_list_credential |-> [base |-> 1, path |-> path]]
          IN  /\ statusCall' = [status |-> status, list_len |-> l]
              /\ terseEntry' = FromBitstringStatusListEntry(status, l)
    /\ pc' = "compressed"
    /\ UNCHANGED <<exceptStatus, overflow_checks, expanded>>

\* terse.to_bitstring_status_list_entry(info)
StExpand ==
    /\ pc = "compressed"
    /\ terseEntry.ok
    /\ \E p \in StatusPurposes, l \in {statusCall.list_len, 8} :
          LET info == [list_len |-> l, status_purpose |-> p]
          IN  expanded' = [info |-> info, entry |-> ToBitstringStatusListEntry(terseEntry.val, info)]
    /\ pc' = "expanded"
    /\ UNCHANGED <<exceptStatus, overflow_checks, statusCall, terseEntry>>

NextStatus ==
    \/ StCompress
    \/ StExpand

SpecStatus == InitStatus /\ [][NextStatus]_vars

(***************************************************************************)
(* Scenario 6: QR-code payloads.  Bytes are encoded to a payload, or a     *)
(* payload is scanned; the payload is decoded.                             *)
(***************************************************************************)
\* tests/mrz.rs: COMPRESSED
COMPRESSED ==
    <<217, 6, 100, 165, 1, 131, 25, 128, 0, 25, 128, 1, 25, 128, 2, 24, 157, 130, 24, 118, 24, 164,
    24, 186, 161, 24, 156, 24, 162, 24, 190, 24, 174, 24, 192, 165, 24, 156, 24, 108, 24, 210, 4,
    24, 220, 24, 226, 24, 222, 88, 65, 122, 158, 199, 246, 136, 246, 12, 170, 140, 117, 117, 146,
    37, 11, 63, 109, 110, 24, 65, 153, 65, 241, 134, 225, 237, 66, 69, 119, 14, 104, 117, 2, 213,
    29, 1, 205, 44, 34, 149, 228, 51, 129, 120, 165, 26, 53, 194, 240, 68, 168, 85, 152, 225, 93,
    185, 174, 240, 2, 97, 188, 92, 149, 167, 68, 231, 24, 224, 24, 176>>

\* tests/mrz.rs: QR_CODE_PAYLOAD
QR_CODE_PAYLOAD ==
    <<86, 67, 49, 45, 82, 83, 74, 82, 80, 87, 67, 82, 56, 48, 51, 65, 51, 80, 48, 48, 57, 56, 71, 51,
    65, 51, 45, 66, 48, 50, 45, 74, 55, 52, 51, 56, 53, 51, 85, 53, 51, 75, 71, 75, 48, 88, 74, 54,
    77, 75, 74, 49, 79, 73, 48, 77, 46, 70, 79, 48, 53, 51, 46, 51, 51, 57, 54, 51, 68, 78, 48, 52,
    36, 82, 65, 81, 83, 43, 52, 83, 77, 67, 56, 67, 51, 75, 77, 55, 86, 88, 52, 86, 65, 80, 76, 57,
    37, 69, 73, 76, 73, 58, 73, 49, 79, 36, 68, 58, 50, 51, 37, 71, 74, 48, 79, 85, 67, 80, 83, 48,
    72, 56, 68, 50, 70, 66, 57, 68, 53, 71, 48, 48, 85, 51, 57, 46, 80, 88, 71, 52, 57, 37, 83, 79,
    71, 71, 66, 42, 75, 36, 90, 54, 37, 71, 85, 83, 67, 76, 87, 69, 74, 56, 37, 66, 57, 53, 77, 79,
    68, 48, 80, 32, 78, 71, 45, 73, 58, 86, 56, 78, 54, 51, 75, 53, 51>>

MaxQrLen == 3

\* The bytes a payload is made of.
QrBytes == {0, 1, 44, 45, 255}

RECURSIVE SeqsUpTo(_, _)
SeqsUpTo(S, n) ==
    IF n = 0 THEN {<<>>}
    ELSE LET shorter == SeqsUpTo(S, n - 1)
         IN  shorter \cup {Append(s, x) : s \in {t \in shorter : Len(t) = n - 1}, x \in S}

QrInputs == SeqsUpTo(QrBytes, MaxQrLen) \cup {COMPRESSED}

\* The payloads read from a QR code: those of the test, with a character
\* dropped, with a prefix of another kind, and short strings over a
\* character of each kind ('R', '-', '0', ':', 'a').
ScannedPayloads ==
    {QR_CODE_PAYLOAD, SubSeq(QR_CODE_PAYLOAD, 1, Len(QR_CODE_PAYLOAD) - 1),
     SubSeq(QR_CODE_PAYLOAD, 1, Len(QR_CODE_PAYLOAD) - 2), Tail(QR_CODE_PAYLOAD),
     <<86, 67, 49>>, <<86, 67, 49, 45>>}
    \cup {<<86, 67, 49, 45>> \o s : s \in SeqsUpTo({82, 45, 48, 58, 97}, MaxQrLen + 1)}

InitQr ==
    /\ pc = "qr"
    /\ IdleCore
    /\ IdleAamva
    /\ IdleRecord
    /\ IdleStatus
    /\ IdleField
    /\ IdleBuilder
    /\ IdleHeader
    /\ IdleReader
    /\ qrInput = <<>>
    /\ qrPayload = <<>>
    /\ qrResult = Err("")

\* MachineReadableZone::encode_qr_code_payload(bytes)
QrEncode ==
    /\ pc = "qr"
    /\ \E bytes \in QrInputs :
          /\ qrInput' = bytes
          /\ qrPayload' = encode_qr_code_payload(bytes)
    /\ pc' = "qrEncoded"
    /\ UNCHANGED <<exceptQr, qrResult>>

\* A payload is read from a QR code.
QrScan ==
    /\ pc = "qr"
    /\ qrPayload' \in ScannedPayloads
    /\ pc' = "qrScanned"
    /\ UNCHANGED <<exceptQr, qrInput, qrResult>>

\* MachineReadableZone::decode_qr_code_payload(value)
QrDecode ==
    /\ pc \in {"qrEncoded", "qrScanned"}
    /\ qrResult' = decode_qr_code_payload(qrPayload)
    /\ pc' = IF pc = "qrEncoded" THEN "qrDecoded" ELSE "qrDecodedScan"
    /\ UNCHANGED <<exceptQr, qrInput, qrPayload>>

NextQr ==
    \/ QrEncode
    \/ QrScan
    \/ QrDecode

SpecQr == InitQr /\ [][NextQr]_vars

(***************************************************************************)
(* Scenario 7: field values.  A Fixed or a Variable field is made from     *)
(* bytes and its bytes are read back.                                      *)
(***************************************************************************)
MaxFieldLen == 2

\* The bytes of the values: NUL, a digit, a letter, a byte outside ASCII.
FieldBytes == {0, 48, 65, 200}

FieldValues == SeqsUpTo(FieldBytes, MaxFieldLen + 1)

InitField ==
    /\ pc = "field"
    /\ IdleCore
    /\ IdleAamva
    /\ IdleRecord
    /\ IdleStatus
    /\ IdleQr
    /\ IdleBuilder
    /\ IdleHeader
    /\ IdleReader
    /\ fieldCall = <<>>
    /\ fieldResult = Err("")
    /\ fieldBytes = <<>>

\* Fixed::<C, N>::new(value)
FieldNewFixed ==
    /\ pc = "field"
    /\ \E C \in CharClasses, N \in 0..MaxFieldLen, value \in FieldValues :
          /\ fieldCall' = [type |-> "Fixed", C |-> C, N |-> N, value |-> value]
          /\ fieldResult' = FixedNew(C, N, value)
    /\ pc' = "fieldNew"
    /\ UNCHANGED <<exceptField, fieldBytes>>

\* Variable::<C, N>::new(value)
FieldNewVariable ==
    /\ pc = "field"
    /\ \E C \in CharClasses, N \in 0..MaxFieldLen, value \in FieldValues :
          /\ fieldCall' = [type |-> "Variable", C |-> C, N |-> N, value |-> value]
          /\ fieldResult' = VariableNew(C, N, value)
    /\ pc' = "fieldNew"
    /\ UNCHANGED <<exceptField, fieldBytes>>

\* Fixed::as_bytes, Variable::as_bytes
FieldAsBytes ==
    /\ pc = "fieldNew"
    /\ fieldResult.ok
    /\ fieldBytes' = IF fieldCall.type = "Fixed" THEN FixedAsBytes(fieldResult.val)
                     ELSE VariableAsBytes(fieldResult.val)
    /\ pc' = "fieldRead"
    /\ UNCHANGED <<exceptField, fieldCall, fieldResult>>

NextField ==
    \/ FieldNewFixed
    \/ FieldNewVariable
    \/ FieldAsBytes

SpecField == InitField /\ [][NextField]_vars

(***************************************************************************)
(* Scenario 8: the subfile builder.  Elements are set on a new             *)
(* DlSubfileBuilder, in any number and some of them again, and the         *)
(* builder is built.                                                       *)
(***************************************************************************)
\* The mandatory elements set at any time, in any order: the first, one
\* of the middle and the last of the table.
FreeElements == {"CustomerIdNumber", "DateOfBirth", "CountryIdentification"}

\* The set calls that can come next: an element and its value.  Set
\* calls on different elements commute, so the mandatory elements that are
\* not free are set in the order of the table, each with one value; a free
\* element and one optional element are set at any time, with any value.
SetCalls(b) ==
    LET rest == {i \in 1..Len(DlMandatoryElement) :
                    /\ DlMandatoryElement[i][1] \notin FreeElements
                    /\ b.mandatory[DlMandatoryElement[i][1]] = None}
    IN  {<<Mandatory(e), v>> : e \in FreeElements, v \in {<<>>, <<78>>}}
        \cup {<<Mandatory(DlMandatoryElement[i][1]), <<78>> >> :
                  i \in {j \in rest : \A k \in rest : j <= k}}
        \cup {<<Optional("AddressStreet2"), v>> : v \in {<<>>, <<78>>}}

InitBuilder ==
    /\ pc = "builder"
    /\ IdleCore
    /\ IdleAamva
    /\ IdleRecord
    /\ IdleStatus
    /\ IdleQr
    /\ IdleField
    /\ IdleHeader
    /\ IdleReader
    /\ sfBuilder = DlSubfileBuilderNew
    /\ everSet = {}
    /\ sfBuilt = Err("")

\* DlSubfileBuilder::set(element, value)
BdSet ==
    /\ pc = "builder"
    /\ \E call \in SetCalls(sfBuilder) :
          /\ sfBuilder' = DlSubfileBuilderSet(sfBuilder, call[1], call[2])
          /\ everSet' = everSet \cup {call[1]}
    /\ UNCHANGED <<pc, exceptBuilder, sfBuilt>>

\* DlSubfileBuilder::build(self)
BdBuild ==
    /\ pc = "builder"
    /\ sfBuilt' = DlSubfileBuilderBuild(sfBuilder)
    /\ pc' = "built"
    /\ UNCHANGED <<exceptBuilder, sfBuilder, everSet>>

NextBuilder ==
    \/ BdSet
    \/ BdBuild

SpecBuilder == InitBuilder /\ [][NextBuilder]_vars

(***************************************************************************)
(* Scenario 9: records.  A record is decoded from bytes.                   *)
(***************************************************************************)
MaxRecordLen == 6

\* The bytes of the records: a letter and the three framing bytes.
RecordBytes == {65, DATA_ELEMENT_SEPARATOR, SEGMENT_TERMINATOR, RECORD_SEPARATOR}

InitRecord ==
    /\ pc = "record"
    /\ IdleCore
    /\ IdleStatus
    /\ IdleQr
    /\ IdleField
    /\ IdleBuilder
    /\ IdleAamva
    /\ IdleHeader
    /\ IdleReader
    /\ recBytes \in SeqsUpTo(RecordBytes, MaxRecordLen)
    /\ recResult = Err("")

\* RecordEntry::decode(reader)
RecDecode ==
    /\ pc = "record"
    /\ recResult' = RecordEntryDecode(recBytes, 1)
    /\ pc' = "recDecoded"
    /\ UNCHANGED <<exceptRecord, recBytes>>

NextRecord == RecDecode

SpecRecord == InitRecord /\ [][NextRecord]_vars

(***************************************************************************)
(* Scenario 10: headers.  A header or a subfile designator is decoded from *)
(* bytes.                                                                  *)
(***************************************************************************)
\* The header and the first designator of the test fixture.
FIXTURE_HEADER == SubSeq(PDF417_PAYLOAD, 1, 21)

FIXTURE_DESIGNATOR == SubSeq(PDF417_PAYLOAD, 22, 31)

\* The bytes put in place of a byte of the fixture: "/", "0", "9", ":", "A".
HeaderAlterationBytes == {47, 48, 57, 58, 65}

\* The input with one byte replaced, cut short, and followed by a byte.
HeaderAlterations(input) ==
    {[input EXCEPT ![i] = b] : i \in 1..Len(input), b \in HeaderAlterationBytes}
        \cup {SubSeq(input, 1, n) : n \in 0..Len(input)}
        \cup {input \o <<b>> : b \in HeaderAlterationBytes}

HeaderInputs == HeaderAlterations(FIXTURE_HEADER) \cup HeaderAlterations(FIXTURE_DESIGNATOR)

InitHeader ==
    /\ pc = "header"
    /\ IdleCore
    /\ IdleStatus
    /\ IdleQr
    /\ IdleField
    /\ IdleBuilder
    /\ IdleAamva
    /\ IdleRecord
    /\ IdleReader
    /\ hdrBytes \in HeaderInputs
    /\ hdrResult = Err("")

\* Header::decode(reader)
HdDecodeHeader ==
    /\ pc = "header"
    /\ hdrResult' = HeaderDecode(hdrBytes, 1)
    /\ pc' = "headerDecoded"
    /\ UNCHANGED <<exceptHeader, hdrBytes>>

\* SubfileDesignator::decode(reader)
HdDecodeDesignator ==
    /\ pc = "header"
    /\ hdrResult' = SubfileDesignatorDecode(hdrBytes, 1)
    /\ pc' = "designatorDecoded"
    /\ UNCHANGED <<exceptHeader, hdrBytes>>

NextHeader ==
    \/ HdDecodeHeader
    \/ HdDecodeDesignator

SpecHeader == InitHeader /\ [][NextHeader]_vars

(***************************************************************************)
(* Scenario 11: the writer.  Subfile values (Subfile::new) of several data *)
(* lengths are pushed on a FileBuilder that already holds a number of      *)
(* empty subfiles, and the file is written.                                *)
(***************************************************************************)
\* The number of empty ZZ subfiles the builder holds at the start.
HeldAtStart == {0, 98}

\* The data lengths of the pushed subfiles.
DataLengths == {0, 1, 9957, 9998}

\* Subfile::new(subfile_type, vec![b'A'; n])
SubfileOfLength(subfile_type, n) == SubfileNew(subfile_type, [i \in 1..n |-> 65])

InitWriter ==
    /\ pc = "builder"
    /\ IdleCodec
    /\ \E n \in HeldAtStart :
           fbuilder = [FileBuilderNew(636026, 10, 1) EXCEPT
                          !.subfiles = [i \in 1..n |-> SubfileOfLength(<<90, 90>>, 0)]]
    /\ pushed = <<>>
    /\ fbytes = <<>>
    /\ file = Err("")
    /\ fread = <<>>
    /\ rebuilt = <<>>
    /\ IdleIndex
    /\ IdleXi
    /\ IdleLib

\* builder.push(Subfile::new(subfile_type, data))
WrPush ==
    /\ pc = "builder"
    /\ Len(pushed) < MaxSubfiles
    /\ \E t \in {<<68, 76>>, <<90, 90>>}, n \in DataLengths :
           /\ fbuilder' = FileBuilderPush(fbuilder, SubfileOfLength(t, n))
           /\ pushed' = Append(pushed, <<"Subfile", n>>)
    /\ UNCHANGED <<pc, codecVars, fbytes, file, fread, rebuilt, indexVars, xiVars, libVars>>

NextWriter ==
    \/ WrPush
    \/ FWrite

SpecWriter == InitWriter /\ [][NextWriter]_vars

(***************************************************************************)
(* Scenario 12: the readers.  decode_subfile of DlSubfile, IdSubfile,      *)
(* ZZSubfile, Record and Vec<u8> runs read by read over a byte source: the *)
(* type code, then per record the tag and the bytes of the value up to a   *)
(* delimiter; Vec<u8> reads byte by byte.                                  *)
(***************************************************************************)
MaxReadLen == 4

\* The sources: short ones of a letter and the framing bytes behind the
\* type code of the decoder (for ZZ also behind the tag "ZZA"), and the
\* scanned DL and ID subfiles.
ReaderSources(D) ==
    LET short == SeqsUpTo(RecordBytes, MaxReadLen)
    IN  IF D = "DL" THEN ScannedInputs("DL") \cup {<<68>>} \cup {<<68, 76>> \o x : x \in short}
        ELSE IF D = "ID" THEN ScannedInputs("ID") \cup {<<73, 68>> \o x : x \in short}
        ELSE IF D = "ZZ" THEN {<<90, 90>> \o x : x \in short}
                              \cup {<<90, 90, 90, 90, 65>> \o x : x \in short}
        ELSE IF D = "Record" THEN {<<88, 88>> \o x : x \in short}
        ELSE short

InitReader ==
    /\ pc \in {"rdType", "rdRaw"}
    /\ IdleCore
    /\ IdleStatus
    /\ IdleQr
    /\ IdleField
    /\ IdleBuilder
    /\ IdleAamva
    /\ IdleRecord
    /\ IdleHeader
    /\ rdDecoder \in (IF pc = "rdType" THEN {"DL", "ID", "ZZ", "Record"} ELSE {"Vec<u8>"})
    /\ rdBytes \in ReaderSources(rdDecoder)
    /\ rdPos = 1
    /\ rdAcc = <<>>
    /\ rdEntry = <<>>
    /\ rdResult = Err("")

\* decode_subfile: read_array(reader)? for the type code; the builder is
\* made.
RdReadType ==
    /\ pc = "rdType"
    /\ LET ty == read_array(rdBytes, rdPos, 2)
           own == IF rdDecoder = "DL" THEN <<68, 76>>
                  ELSE IF rdDecoder = "ID" THEN <<73, 68>>
                  ELSE IF rdDecoder = "ZZ" THEN <<90, 90>>
                  ELSE ty.val.arr
       IN  IF ~ty.ok
           THEN /\ rdResult' = ty
                /\ pc' = "rdDone"
                /\ UNCHANGED <<rdPos, rdAcc>>
           ELSE IF ty.val.arr # own
           THEN /\ rdResult' = Err("InvalidData")
                /\ rdPos' = ty.val.pos
                /\ pc' = "rdDone"
                /\ UNCHANGED rdAcc
           ELSE /\ rdPos' = ty.val.pos
                /\ rdAcc' = IF rdDecoder = "DL" THEN DlSubfileBuilderNew
                            ELSE IF rdDecoder = "ID"
                            THEN [mandatory |-> PartialNew(IdMandatoryElement),
                                  optional |-> PartialNew(IdOptionalElement)]
                            ELSE IF rdDecoder = "Record"
                            THEN [subfile_type |-> ty.val.arr, entries |-> <<>>]
                            ELSE <<>>
                /\ pc' = "rdTag"
                /\ UNCHANGED rdResult
    /\ UNCHANGED <<exceptReader, rdDecoder, rdBytes, rdEntry>>

\* RecordEntry::decode: read_array(reader)? for the tag.
RdReadTag ==
    /\ pc = "rdTag"
    /\ LET field == read_array(rdBytes, rdPos, 3)
       IN  IF ~field.ok
           THEN /\ rdResult' = field
                /\ pc' = "rdDone"
                /\ UNCHANGED <<rdPos, rdEntry>>
           ELSE /\ rdEntry' = [field |-> field.val.arr, value |-> <<>>]
                /\ rdPos' = field.val.pos
                /\ pc' = "rdValue"
                /\ UNCHANGED rdResult
    /\ UNCHANGED <<exceptReader, rdDecoder, rdBytes, rdAcc>>

\* RecordEntry::decode: one turn of the value loop, read_u8(reader)?; on a
\* delimiter the entry is returned and decode_subfile takes it.
RdReadByte ==
    /\ pc = "rdValue"
    /\ LET r == read_u8(rdBytes, rdPos)
           last == r.val.b = SEGMENT_TERMINATOR
           dl == DlElementFromId(rdEntry.field)
           dlNext == DlSubfileBuilderSet(rdAcc, dl[1], rdEntry.value)
           dlBuilt == DlSubfileBuilderBuild(dlNext)
           id == IdElementFromId(rdEntry.field)
           idNext == IdBuilderSet(rdAcc, id[1], rdEntry.value)
           idBuilt == MandatoryBuild(IdMandatoryElement, idNext.mandatory)
           zza == FromUtf8(rdEntry.value)
           entries == Append(rdAcc.entries, rdEntry)
           \* what decode_subfile does with the entry: <<result, builder>>,
           \* the result being Err("") while the loop goes on
           taken ==
               IF rdDecoder = "DL"
               THEN IF dl = None THEN <<Err("InvalidData"), rdAcc>>
                    ELSE IF ~last THEN <<Err(""), dlNext>>
                    ELSE IF dlBuilt.ok THEN <<Ok(dlBuilt.val), dlNext>>
                    ELSE <<Err("InvalidData"), dlNext>>
               ELSE IF rdDecoder = "ID"
               THEN IF id = None THEN <<Err("InvalidData"), rdAcc>>
                    ELSE IF ~last THEN <<Err(""), idNext>>
                    ELSE IF idBuilt.ok
                    THEN <<Ok([mandatory |-> idBuilt.val, optional |-> idNext.optional]),
                           idNext>>
                    ELSE <<Err("InvalidData"), idNext>>
               ELSE IF rdDecoder = "ZZ"
               THEN IF ~last \/ rdEntry.field # <<90, 90, 65>>
                    THEN <<Err("InvalidData"), rdAcc>>
                    ELSE IF zza.ok THEN <<Ok([zza |-> zza.val]), rdAcc>>
                    ELSE <<zza, rdAcc>>
               ELSE IF last
                    THEN <<Ok([rdAcc EXCEPT !.entries = entries]), rdAcc>>
                    ELSE <<Err(""), [rdAcc EXCEPT !.entries = entries]>>
       IN  IF ~r.ok
           THEN /\ rdResult' = r
                /\ pc' = "rdDone"
                /\ UNCHANGED <<rdPos, rdAcc, rdEntry>>
           ELSE IF r.val.b = RECORD_SEPARATOR
           THEN /\ rdResult' = Err("InvalidData")
                /\ rdPos' = r.val.pos
                /\ pc' = "rdDone"
                /\ UNCHANGED <<rdAcc, rdEntry>>
           ELSE IF r.val.b \in {DATA_ELEMENT_SEPARATOR, SEGMENT_TERMINATOR}
           THEN /\ rdResult' = taken[1]
                /\ rdAcc' = taken[2]
                /\ rdPos' = r.val.pos
                /\ pc' = IF taken[1] = Err("") THEN "rdTag" ELSE "rdDone"
                /\ UNCHANGED rdEntry
           ELSE /\ rdEntry' = [rdEntry EXCEPT !.value = Append(@, r.val.b)]
                /\ rdPos' = r.val.pos
                /\ UNCHANGED <<pc, rdAcc, rdResult>>
    /\ UNCHANGED <<exceptReader, rdDecoder, rdBytes>>

\* Vec<u8>::decode_subfile: one turn of the loop, read_u8(reader)?.
RdReadRaw ==
    /\ pc = "rdRaw"
    /\ LET r == read_u8(rdBytes, rdPos)
       IN  IF ~r.ok
           THEN /\ rdResult' = r
                /\ pc' = "rdDone"
                /\ UNCHANGED <<rdPos, rdAcc>>
           ELSE /\ rdAcc' = Append(rdAcc, r.val.b)
                /\ rdPos' = r.val.pos
                /\ IF r.val.b = SEGMENT_TERMINATOR
                   THEN rdResult' = Ok(Append(rdAcc, r.val.b)) /\ pc' = "rdDone"
                   ELSE UNCHANGED <<pc, rdResult>>
    /\ UNCHANGED <<exceptReader, rdDecoder, rdBytes, rdEntry>>

NextReader ==
    \/ RdReadType
    \/ RdReadTag
    \/ RdReadByte
    \/ RdReadRaw

SpecReader == InitReader /\ [][NextReader]_vars

\* A call that has started runs on: the reads of decode_subfile follow one
\* another without waiting for anything but the source.
SpecReaderFair == SpecReader /\ WF_vars(NextReader)

(***************************************************************************)
(* Claims about the subfile codec.                                         *)
(***************************************************************************)
\* The data a subfile is expected to encode to: record r of n is the r-th
\* mandatory element of the table or, past those, the present optional
\* element that has r - M - 1 present optional elements before it in the
\* table; it is followed by 0x0D when r = n and by 0x0A otherwise.
ExpectedRecords(mand, opt, value) ==
    LET M == Len(mand)
        present == {i \in 1..Len(opt) : value.optional[opt[i][1]] # <<>>}
        n == M + Cardinality(present)
        nth(r) == CHOOSE i \in present :
                      Cardinality({j \in present : j < i}) = r - M - 1
    IN  [r \in 1..n |->
            (IF r <= M
             THEN mand[r][2] \o value.mandatory[mand[r][1]]
             ELSE opt[nth(r)][2] \o value.optional[opt[nth(r)][1]][1])
            \o <<IF r = n THEN 13 ELSE 10>>]

ExpectedData(k, value) ==
    Concat(IF k = "DL"
           THEN ExpectedRecords(DlMandatoryElement, DlOptionalElement, value)
           ELSE ExpectedRecords(IdMandatoryElement, IdOptionalElement, value))

DataOf(bytes) == SubSeq(bytes, 3, Len(bytes))

\* C1 (as claimed): a DL subfile that was encoded decodes successfully to
\* the same mandatory and optional elements, whatever byte strings its
\* elements hold.
C1_DlRoundTrip ==
    (pc = "decoded" /\ origin = "built" /\ kind = "DL")
        => (decoded.ok /\ decoded.val.subfile = subfile)

\* C2 (as claimed): an encoded ID subfile carries the type code "ID" and
\* decodes with IdSubfile::decode_subfile to the same elements.
C2_IdRoundTrip ==
    (origin = "built" /\ kind = "ID")
        => /\ pc = "encoded" => SubSeq(encoded, 1, 2) = <<73, 68>>
           /\ pc = "decoded" => (decoded.ok /\ decoded.val.subfile = subfile)

\* C5: the data of an encoded DL or ID subfile is one record per element,
\* the mandatory elements in table order, then the present optional
\* elements in table order, each record but the last closed by 0x0A and
\* the last one by 0x0D; this holds for a subfile value that was built and
\* for one that was decoded from records in another order.
C5_EncodingOrder ==
    /\ (pc = "encoded" /\ origin = "built")
           => DataOf(encoded) = ExpectedData(kind, subfile)
    /\ pc = "done"
           => DataOf(reencoded) = ExpectedData(kind, decoded.val.subfile)

\* C5 witness: the fixture, whose records are in ascending tag order and
\* hold three optional elements, was decoded and encoded again, and the
\* bytes written differ from the ones read.
C5_Witness ==
    /\ pc = "done"
    /\ origin = "scanned"
    /\ encoded = DL_SUBFILE_BYTES
    /\ reencoded # encoded
    /\ Len(reencoded) = Len(encoded)


(***************************************************************************)
(* Claims about the PDF417 file.                                           *)
(***************************************************************************)
\* The designator at index i delimits, in the buffer, exactly the written
\* bytes of the i-th subfile of the builder.
Delimits(f, bytes, builder, i) ==
    LET d == f.subfile_designators[i]
    IN  /\ d.offset + d.length <= Len(bytes)
        /\ SubSeq(bytes, d.offset + 1, d.offset + d.length) = SubfileWrite(builder.subfiles[i])

\* C3: parsing the written bytes of a FileBuilder on which N subfiles were
\* pushed yields N designators whose offset and length delimit the bytes of
\* the corresponding subfile, and read_subfile with each pushed subfile's
\* type returns the pushed value.
C3_FileRoundTrip ==
    pc = "parsed" =>
        /\ file.ok
        /\ Len(file.val.subfile_designators) = Len(pushed)
        /\ \A i \in 1..Len(pushed) :
               /\ Delimits(file.val, fbytes, fbuilder, i)
               /\ LET r == FileReadSubfile(file.val, fbytes, pushed[i][1],
                                           TypeCodeOf(pushed[i][1]))
                  IN  r.ok /\ r.val.subfile = Some(pushed[i][2])

\* The tags of the records of a subfile, in the order they are written.
RECURSIVE RecordTags(_, _)
RecordTags(bytes, pos) ==
    LET e == RecordEntryDecode(bytes, pos)
    IN  IF ~e.ok THEN <<>>
        ELSE IF e.val.last THEN <<e.val.field>>
        ELSE <<e.val.field>> \o RecordTags(bytes, e.val.pos)

\* The rank of a tag in the DL tables: mandatory elements first, then the
\* optional ones, each in table order; 0 for a tag of neither table.
TableRank(tag) ==
    LET all == [i \in 1..Len(DlMandatoryElement) |-> DlMandatoryElement[i][2]]
               \o [i \in 1..Len(DlOptionalElement) |-> DlOptionalElement[i][2]]
        hits == {i \in 1..Len(all) : all[i] = tag}
    IN  IF hits = {} THEN 0 ELSE CHOOSE i \in hits : TRUE

InTableOrder(tags) ==
    \A i, j \in 1..Len(tags) : i < j => TableRank(tags[i]) < TableRank(tags[j])

\* A file in the layout FileBuilder::write produces: only DL and ZZ
\* subfiles, laid out one after the other from the end of the designator
\* table, each designator's length being the extent of its subfile, nothing
\* after the last subfile, and the records of every DL subfile in table
\* order without a repeated tag.
CanonicalFile(f, bytes) ==
    LET ds == f.subfile_designators
        n == Len(ds)
        extent(i) == DecodedSubfiles(f, bytes)[i].val.pos - (ds[i].offset + 1)
        end(i) == ds[i].offset + ds[i].length
    IN  /\ \A i \in 1..n :
               /\ DecoderOf(ds[i].subfile_type) \in {"DL", "ZZ"}
               /\ ds[i].length = extent(i)
               /\ ds[i].offset = IF i = 1 THEN HEADER_SIZE + SUBFILE_DESIGNATOR_SIZE * n
                                 ELSE end(i - 1)
               /\ DecoderOf(ds[i].subfile_type) = "DL" =>
                      InTableOrder(RecordTags(bytes, ds[i].offset + 3))
        /\ Len(bytes) = IF n = 0 THEN HEADER_SIZE ELSE end(n)

\* C4 as stated: for every file that File::new parses and whose DL/ID/ZZ
\* subfiles all decode, building the file again from the decoded header and
\* subfiles gives the bytes of the file.
C4_AnyWellFormedFile ==
    pc \in {"rebuilt", "rebuiltScan"} => rebuilt = fbytes

\* C4, amended: the file built again from the decoded header and subfiles
\* equals the file when the file is in the layout FileBuilder::write
\* produces (CanonicalFile).
C4_CanonicalRoundTrip ==
    (pc \in {"rebuilt", "rebuiltScan"} /\ CanonicalFile(file.val, fbytes)) => rebuilt = fbytes

C4_Witness ==
    /\ pc = "rebuiltScan"
    /\ fbytes = PDF417_PAYLOAD
    /\ CanonicalFile(file.val, fbytes)
    /\ rebuilt = fbytes


(***************************************************************************)
(* Claims about the protected component index.                             *)
(***************************************************************************)
\* The position of a mandatory element among the mandatory elements in
\* ascending order of their tags: the number of elements with a smaller tag.
TagPosition ==
    [e \in Variants(DlMandatoryElement) |->
        Cardinality({x \in Variants(DlMandatoryElement) :
                        LexLess(IdOf(DlMandatoryElement, x), IdOf(DlMandatoryElement, e))})]

\* The index holds exactly the bits 1 << (23 - i) of the inserted elements.
ExactlyTheBitsOfInserted ==
    /\ pcindex \in 0..(2 ^ 24 - 1)
    /\ pcindex % 4 = 0
    /\ \A e \in Variants(DlMandatoryElement) :
           ((pcindex \div (2 ^ (23 - TagPosition[e]))) % 2 = 1) <=> (e \in inserted)

NameAndNumber == {"CustomerFirstName", "CustomerFamilyName", "CustomerIdNumber"}

\* C6 as stated: insert(e) sets exactly the bit 1 << (23 - i), i the position
\* of e in the tag-sorted list; inserting CustomerFirstName,
\* CustomerFamilyName and CustomerIdNumber yields 0x208020, encoded "uggAg".
C6_Value208020 ==
    /\ ExactlyTheBitsOfInserted
    /\ inserted = NameAndNumber => pcindex = 2129952
    /\ (pc = "ixEncoded" /\ inserted = NameAndNumber) => multibase = <<117, 103, 103, 65, 103>>

\* C6, amended: insert(e) sets exactly the bit 1 << (23 - i), i the position
\* of e in the tag-sorted list; inserting CustomerFirstName,
\* CustomerFamilyName and CustomerIdNumber yields 0x820020
\* (0b100000100000000000100000), encoded "uggAg".
C6_BitPosition ==
    /\ ExactlyTheBitsOfInserted
    /\ inserted = NameAndNumber => pcindex = 8519712
    /\ (pc = "ixEncoded" /\ inserted = NameAndNumber) => multibase = <<117, 103, 103, 65, 103>>

C6_Witness ==
    /\ pc = "ixEncoded"
    /\ inserted = NameAndNumber
    /\ pcindex = 8519712
    /\ multibase = <<117, 103, 103, 65, 103>>

\* A multibase string of the modelled bases whose payload is 3 bytes: 'u'
\* and four base64url characters, or 'f' and six lower-case hex digits.
IsBase64Url3(m) ==
    Len(m) = 5 /\ m[1] = 117 /\ \A k \in 2..5 : \E i \in 1..64 : B64URL[i] = m[k]

IsBase16Lower3(m) ==
    /\ Len(m) = 7 /\ m[1] = 102
    /\ \A k \in 2..7 : (m[k] >= 48 /\ m[k] <= 57) \/ (m[k] >= 97 /\ m[k] <= 102)

\* b0 << 16 | b1 << 8 | b2 of the payload, read off the characters.
PayloadValue(m) ==
    IF m[1] = 117
    THEN Sextet(m[2]) * 262144 + Sextet(m[3]) * 4096 + Sextet(m[4]) * 64 + Sextet(m[5])
    ELSE LET nib(c) == IF c <= 57 THEN c - 48 ELSE c - 87
         IN  nib(m[2]) * 1048576 + nib(m[3]) * 65536 + nib(m[4]) * 4096
             + nib(m[5]) * 256 + nib(m[6]) * 16 + nib(m[7])

\* C7: encode emits 'u' and the base64url characters of the 24-bit value,
\* most significant first; decode succeeds exactly on a valid multibase
\* string with a 3-byte payload, returning b0 << 16 | b1 << 8 | b2, and
\* fails with InvalidProtectedComponentIndex otherwise; decoding an encoded
\* index gives the index back.
C7_WireFormat ==
    /\ pc \in {"ixEncoded", "ixDecoded"} =>
           /\ Len(multibase) = 5
           /\ multibase[1] = 117
           /\ \A k \in 1..4 :
                  multibase[k + 1] = B64URL[((pcindex \div (64 ^ (4 - k))) % 64) + 1]
    /\ pc \in {"ixDecoded", "ixDecodedReceived"} =>
           IF IsBase64Url3(multibase) \/ IsBase16Lower3(multibase)
           THEN decodedIdx = Ok(PayloadValue(multibase))
           ELSE ~decodedIdx.ok /\ decodedIdx.err = "InvalidProtectedComponentIndex"
    /\ pc = "ixDecoded" => decodedIdx = Ok(pcindex)

C7_Witness ==
    /\ pc = "ixDecoded"
    /\ Cardinality(inserted) = 3
    /\ "DocumentDiscriminator" \in inserted
    /\ decodedIdx = Ok(pcindex)

\* The entries of the inserted elements in ascending byte-string order.
ExpectedEntries ==
    LET entries == {IdOf(DlMandatoryElement, e) \o elements[e] \o <<10>> : e \in inserted}
    IN  [p \in 1..Cardinality(entries) |->
            CHOOSE x \in entries : Cardinality({y \in entries : LexLess(y, x)}) = p - 1]

\* C8: the optical data is the SHA-256 digest (32 bytes) of the entries
\* tag, value, 0x0A of exactly the elements contained in the index,
\* concatenated in ascending byte-string order; it is a function of the
\* index and the element values only.
C8_OpticalData ==
    pc = "ixOptical" =>
        /\ optical.alg = "SHA-256"
        /\ optical.len = 32
        /\ optical.of = Concat(ExpectedEntries)

C8_Witness ==
    /\ pc = "ixOptical"
    /\ inserted = NameAndNumber
    /\ elements = DL_SUBFILE.mandatory
    /\ optical.of = <<68, 65, 67, 74, 79, 72, 78, 10, 68, 65, 81, 70, 57, 56, 55, 54, 53, 52, 51, 50, 49, 10, 68, 67, 83, 83, 77, 73, 84, 72, 10>>


(***************************************************************************)
(* Claims about ecdsa-xi-2023 and the binding to the MRZ.                  *)
(***************************************************************************)
\* The three components of a hash output are digests of algorithm alg and
\* length len over the configuration lines concatenated, the claims lines
\* concatenated and the extra information.
ThreeDigests(hash, input, alg, len) ==
    /\ Len(hash) = 3
    /\ \A i \in 1..3 : hash[i].alg = alg /\ hash[i].len = len
    /\ hash[1].of = Concat(input.configuration)
    /\ hash[2].of = Concat(input.claims)
    /\ hash[3].of = input.extra_information

\* C9: for a P-256 key the hash is the three SHA-256 digests of the
\* configuration lines, the claims lines and the extra information, 96
\* bytes; for a P-384 key the three SHA-384 digests, 144 bytes; for another
\* curve or a key that does not decode the result is the error InvalidKey.
C9_XiHash ==
    pc = "hashed" =>
        LET curve == xihash.verification_method.public_key.curve
            out == xihash.output
        IN  IF curve = "P256"
            THEN /\ out.ok
                 /\ out.val.variant = "Sha256"
                 /\ ThreeDigests(out.val.hash, xihash.input, "SHA-256", 32)
                 /\ HashLen(out.val.hash) = 96
            ELSE IF curve = "P384"
            THEN /\ out.ok
                 /\ out.val.variant = "Sha384"
                 /\ ThreeDigests(out.val.hash, xihash.input, "SHA-384", 48)
                 /\ HashLen(out.val.hash) = 144
            ELSE out = Err("InvalidKey")

C9_Witness ==
    /\ pc = "hashed"
    /\ xihash.verification_method.public_key.curve = "P384"
    /\ Len(xihash.input.configuration) = 2
    /\ xihash.input.extra_information = <<7, 7>>
    /\ xihash.output.ok
    /\ HashLen(xihash.output.val.hash) = 144

\* The status check of the verifier lets the credential through: it has
\* no status entry, or the client reports, for a revocation or suspension
\* list, the status 0, or any status for a message list.
StatusCheckPasses ==
    \/ vc.val.credential.credential_status = <<>>
    \/ /\ vresult.status_list_client # None
       /\ ~vresult.status_list_client[1].err
       /\ vresult.status_list_client[1].status # None
       /\ \/ vresult.status_list_client[1].purpose = "message"
          \/ vresult.status_list_client[1].status = Some(0)

\* The two MRZ differ in exactly one byte.
SingleByteChange(m1, m2) ==
    Cardinality({p \in (1..3) \X (1..30) : m1[p[1]][p[2]] # m2[p[1]][p[2]]}) = 1

\* The third component of the signed hash digests the optical data, the
\* SHA-256 digest of line0, 0x0A, line1, 0x0A, line2, 0x0A.
SignedOverOpticalData ==
    (pc \in {"signed", "verified", "verifiedAgain"} /\ vc.ok) =>
        vc.val.proof.proof_value.over.hash[3].of =
            [alg |-> "SHA-256", len |-> 32,
             of |-> signedMrz[1] \o <<10>> \o signedMrz[2] \o <<10>>
                    \o signedMrz[3] \o <<10>>]

\* C10 as stated: a credential created or signed over the MRZ m verifies
\* with verify(vc, m), whatever the verifier's parameters, and
\* verify(vc, m') reports no success for any m' differing from m in a
\* single byte; sign and verify derive the optical data as the digest of
\* the three lines, each followed by 0x0A.
C10_AnyVerifier ==
    /\ SignedOverOpticalData
    /\ pc \in {"verified", "verifiedAgain"} =>
           /\ shown = signedMrz => vresult.result = Ok(Ok(<<>>))
           /\ SingleByteChange(signedMrz, shown) => vresult.result # Ok(Ok(<<>>))

\* C10, amended: a credential created or signed over the MRZ m verifies
\* with verify(vc, m) when the verifier's status check lets it through
\* (the credential has no status entry, or the status list client reports
\* status 0, or the list is a message list), and verify(vc, m') reports no
\* success for any m' differing from m in a single byte of any of the three
\* lines; sign and verify derive the optical data as the digest of the
\* three lines, each followed by 0x0A.
C10_MrzBinding ==
    /\ SignedOverOpticalData
    /\ pc \in {"verified", "verifiedAgain"} =>
           /\ (shown = signedMrz /\ StatusCheckPasses) => vresult.result = Ok(Ok(<<>>))
           /\ SingleByteChange(signedMrz, shown) => vresult.result # Ok(Ok(<<>>))

C10_Witness ==
    /\ pc = "verifiedAgain"
    /\ okSame
    /\ SingleByteChange(signedMrz, shown)
    /\ shown[3] # signedMrz[3]
    /\ StatusCheckPasses
    /\ vc.val.credential.credential_status # <<>>
    /\ vresult.result = Ok(Err("InvalidProof"))


(***************************************************************************)
(* Claims about status list entries.                                       *)
(***************************************************************************)
\* The call made an entry terse whose URL ends in /<purpose>/<list index>
\* and whose index within the list is below the list length.
CompressibleCall ==
    /\ statusCall # <<>>
    /\ LET path == statusCall.status.status_list_credential.path
           n == Len(path)
       IN  /\ n >= 2
           /\ path[n].number
           /\ ~path[n - 1].number
           /\ path[n - 1].word = statusCall.status.status_purpose
    /\ statusCall.status.status_list_index < statusCall.list_len

\* The exact flat index of the call fits 32-bit signed integers.
FlatIndexOfCall ==
    LET path == statusCall.status.status_list_credential.path
    IN  path[Len(path)].value * statusCall.list_len + statusCall.status.status_list_index

ExactFlatIndexFits ==
    LET path == statusCall.status.status_list_credential.path
    IN  path[Len(path)].value <= 2147483647 \div (statusCall.list_len + 1)

\* C11: an entry whose URL ends in /<purpose>/<list index> and whose index
\* within the list is below the list length is made terse with success, the
\* flat index being list index * list length + index within the list; and
\* converting the terse entry back with the same list length and purpose
\* gives the same purpose, the same URL and the same index within the list.
C11_StatusRoundTrip ==
    /\ (pc \in {"compressed", "expanded"} /\ CompressibleCall)
           => /\ terseEntry.ok
              /\ ExactFlatIndexFits
              /\ terseEntry.val.index = FlatIndexOfCall
    /\ (/\ pc = "expanded"
        /\ CompressibleCall
        /\ expanded.info.list_len = statusCall.list_len
        /\ expanded.info.status_purpose = statusCall.status.status_purpose)
           => /\ expanded.entry.ok
              /\ expanded.entry.val = statusCall.status

\* The errors of from_bitstring_status_list_entry in the order they are
\* looked for.
StatusErrorOrder ==
    <<"MissingListIndex", "InvalidListIndex", "MissingStatusPurpose",
      "InvalidStatusPurpose", "UnexpectedStatusPurpose">>

\* The error applies to the call: the URL has no path segment; its last
\* segment is no number; it has no segment before the last; that segment is
\* no status purpose; that segment is another purpose than the entry's.
StatusErrorApplies(e) ==
    LET path == statusCall.status.status_list_credential.path
        n == Len(path)
    IN  CASE e = "MissingListIndex" -> n = 0
          [] e = "InvalidListIndex" -> n >= 1 /\ ~path[n].number
          [] e = "MissingStatusPurpose" -> n <= 1
          [] e = "InvalidStatusPurpose" ->
                 n >= 2 /\ (path[n - 1].number \/ path[n - 1].word \notin StatusPurposes)
          [] e = "UnexpectedStatusPurpose" ->
                 /\ n >= 2 /\ ~path[n - 1].number /\ path[n - 1].word \in StatusPurposes
                 /\ path[n - 1].word # statusCall.status.status_purpose

StatusErrorsApplying == {i \in 1..5 : StatusErrorApplies(StatusErrorOrder[i])}

\* C12: from_bitstring_status_list_entry reports the first error that
\* applies, in the order MissingListIndex, InvalidListIndex,
\* MissingStatusPurpose, InvalidStatusPurpose, UnexpectedStatusPurpose, and
\* produces no terse entry with an error.
C12_StatusErrorOrder ==
    pc \in {"compressed", "expanded"} =>
        /\ StatusErrorsApplying # {} =>
               /\ ~terseEntry.ok
               /\ terseEntry.val = <<>>
               /\ \E i \in StatusErrorsApplying :
                      /\ terseEntry.err = StatusErrorOrder[i]
                      /\ \A j \in StatusErrorsApplying : i <= j
        /\ terseEntry.err \in {StatusErrorOrder[i] : i \in 1..5} => terseEntry.val = <<>>

\* Two errors apply to the call, and the earlier one was reported.
C12_Witness ==
    /\ pc = "compressed"
    /\ Cardinality(StatusErrorsApplying) >= 2
    /\ StatusErrorApplies("UnexpectedStatusPurpose")
    /\ terseEntry.err = "InvalidListIndex"

(***************************************************************************)
(* Claims about QR-code payloads.                                          *)
(***************************************************************************)
\* The base45 digits of the payload, after "VC1-" and 'R'.
PayloadDigits == SubSeq(qrPayload, 6, Len(qrPayload))

\* The value of the digits i..j of the payload, least significant first.
DigitsValue(i, j) ==
    LET V(k) == (CHOOSE d \in 1..45 : BASE_45_TABLE[d] = PayloadDigits[k]) - 1
    IN  IF j = i + 2 THEN V(i) + 45 * V(i + 1) + 2025 * V(i + 2) ELSE V(i) + 45 * V(i + 1)

\* C13: the payload of bytes b is "VC1-", 'R', then three base45 digits for
\* each pair of bytes and two digits for a trailing single byte; decoding
\* the payload succeeds and gives b back, for b empty, of even length and of
\* odd length.  The bytes of the test give the payload of the test.
C13_QrRoundTrip ==
    LET n == Len(qrInput)
    IN  /\ pc \in {"qrEncoded", "qrDecoded"} =>
               /\ Len(qrPayload) = 5 + 3 * (n \div 2) + 2 * (n % 2)
               /\ SubSeq(qrPayload, 1, 5) = <<86, 67, 49, 45, 82>>
               /\ \A k \in 1..Len(PayloadDigits) :
                      \E d \in 1..45 : BASE_45_TABLE[d] = PayloadDigits[k]
               /\ \A j \in 0..((n \div 2) - 1) :
                      DigitsValue(3 * j + 1, 3 * j + 3)
                          = qrInput[2 * j + 1] * 256 + qrInput[2 * j + 2]
               /\ n % 2 = 1 =>
                      DigitsValue(3 * (n \div 2) + 1, 3 * (n \div 2) + 2) = qrInput[n]
               /\ qrInput = COMPRESSED => qrPayload = QR_CODE_PAYLOAD
        /\ pc = "qrDecoded" => qrResult.ok /\ qrResult.val = qrInput

\* Bytes of odd length, with a pair and a trailing byte, went through the
\* payload and back.
C13_Witness ==
    /\ pc = "qrDecoded"
    /\ Len(qrInput) = 3
    /\ qrInput[3] = 255
    /\ Len(qrPayload) = 10
    /\ qrResult.ok

(***************************************************************************)
(* Claims about field values.                                              *)
(***************************************************************************)
\* Every byte of the value handed to new is in the character class of the
\* field: letters, digits, letters and digits, or ASCII.
ValueInClass ==
    LET letters == (65..90) \cup (97..122)
        digits == 48..57
        class == CASE fieldCall.C = "Alpha" -> letters
                   [] fieldCall.C = "Numeric" -> digits
                   [] fieldCall.C = "AlphaNumeric" -> letters \cup digits
                   [] fieldCall.C = "AlphaNumericSpecial" -> 0..127
    IN  \A i \in 1..Len(fieldCall.value) : fieldCall.value[i] \in class

\* C14: Fixed::new(b) succeeds exactly when b has N bytes, all of the
\* class; Variable::new(b) succeeds exactly when b has at most N bytes, all
\* of the class; a failure is InvalidFieldValue; as_bytes of the field
\* gives exactly b, without padding.
C14_FieldValues ==
    /\ pc \in {"fieldNew", "fieldRead"} =>
           /\ fieldCall.type = "Fixed" =>
                  (fieldResult.ok <=> (Len(fieldCall.value) = fieldCall.N /\ ValueInClass))
           /\ fieldCall.type = "Variable" =>
                  (fieldResult.ok <=> (Len(fieldCall.value) <= fieldCall.N /\ ValueInClass))
           /\ ~fieldResult.ok => fieldResult.err = "InvalidFieldValue"
    /\ pc = "fieldRead" => fieldBytes = fieldCall.value

\* A Variable field shorter than its capacity was made and read back.
C14_Witness ==
    /\ pc = "fieldRead"
    /\ fieldCall.type = "Variable"
    /\ Len(fieldCall.value) = 1
    /\ fieldCall.N = 2
    /\ fieldBytes = fieldCall.value

(***************************************************************************)
(* Claims about the subfile builder.                                       *)
(***************************************************************************)
\* The places in the table of the mandatory elements never set.
NeverSet ==
    {i \in 1..Len(DlMandatoryElement) : Mandatory(DlMandatoryElement[i][1]) \notin everSet}

\* C15: build succeeds exactly when every mandatory element was set at
\* least once; otherwise it fails with MissingDataElement(e), e being the
\* first element of the table never set, and gives no subfile.  A subfile
\* built holds the value last set of every element.
C15_BuilderBuild ==
    pc = "built" =>
        /\ sfBuilt.ok <=> NeverSet = {}
        /\ ~sfBuilt.ok =>
               /\ sfBuilt.err = "MissingDataElement"
               /\ \E i \in NeverSet :
                      /\ sfBuilt.val = DlMandatoryElement[i][1]
                      /\ \A j \in NeverSet : i <= j
        /\ sfBuilt.ok =>
               /\ \A e \in Variants(DlMandatoryElement) :
                      Some(sfBuilt.val.mandatory[e]) = sfBuilder.mandatory[e]
               /\ sfBuilt.val.optional = sfBuilder.optional

\* Two elements were never set, others were, and the build named the
\* first of the two.
C15_Witness ==
    /\ pc = "built"
    /\ Cardinality(NeverSet) = 2
    /\ Mandatory("CustomerIdNumber") \in everSet
    /\ Mandatory("CountryIdentification") \notin everSet
    /\ sfBuilt.val = "DateOfBirth"

(***************************************************************************)
(* Claims about the field types of the decoded values.                     *)
(***************************************************************************)
\* The value satisfies the field type declared for the tag.
SatisfiesDeclaredType(tag, value) ==
    LET t == CHOOSE d \in DeclaredFieldTypes : d.tag = tag
    IN  IF t.type = "Fixed" THEN FixedNew(t.C, t.N, value).ok
        ELSE VariableNew(t.C, t.N, value).ok

\* The records of the decoded subfile: tag and value.
DecodedRecords ==
    LET s == decoded.val.subfile
        M == IF kind = "DL" THEN DlMandatoryElement ELSE IdMandatoryElement
        O == IF kind = "DL" THEN DlOptionalElement ELSE IdOptionalElement
    IN  {<<IdOf(M, e), s.mandatory[e]>> : e \in Variants(M)}
        \cup {<<IdOf(O, e), s.optional[e][1]>> : e \in {x \in Variants(O) : s.optional[x] # None}}

\* C16: decoding a DL or ID subfile fails when the value of a record
\* violates the field type declared for its tag; every value of a decoded
\* subfile satisfies the type declared for its tag.
C16_DeclaredTypes ==
    (pc \in {"decoded", "done"} /\ decoded.ok) =>
        \A r \in DecodedRecords : SatisfiesDeclaredType(r[1], r[2])

(***************************************************************************)
(* Claims about the order of verification.                                 *)
(***************************************************************************)
\* C17: in verify and verify_from_optical_data the signature is verified
\* before the status list is consulted: every query of the status list
\* provider comes after the call that verifies the signature.
C17_SignatureBeforeStatus ==
    pc \in {"verified", "verifiedAgain"} =>
        \A i \in 1..Len(vresult.calls) :
            vresult.calls[i].call = "get_status" =>
                \E j \in 1..(i - 1) : vresult.calls[j].call = "vc.verify"

(***************************************************************************)
(* Claims about AAMVA credentials with a malformed index.                  *)
(***************************************************************************)
\* The protected component index of the subject is not valid multibase or
\* does not decode to exactly 3 bytes.
MalformedSubjectIndex ==
    ~PciDecode(aamvaCall.subject.protected_component_index).ok

\* C18: signing or verifying an AAMVA credential whose protected component
\* index is not valid multibase, or does not decode to exactly 3 bytes, ends
\* with an error returned to the caller; the call does not panic.
C18_MalformedIndexIsAnError ==
    (pc \in {"aamvaSigned", "aamvaVerified"} /\ MalformedSubjectIndex) =>
        /\ ~aamvaCall.result.ok
        /\ aamvaCall.result.err # "panic"

(***************************************************************************)
(* Claims about records.                                                   *)
(***************************************************************************)
\* The places of the framing bytes after the 3-byte tag.
FramingAfterTag ==
    {i \in 4..Len(recBytes) :
        recBytes[i] \in {DATA_ELEMENT_SEPARATOR, SEGMENT_TERMINATOR, RECORD_SEPARATOR}}

\* The first framing byte after the tag is at place i.
FirstFramingAt(i) == i \in FramingAfterTag /\ \A j \in FramingAfterTag : i <= j

\* C20: RecordEntry::decode fails with InvalidData when it reads 0x1E after
\* the 3-byte tag and before a delimiter; the value of a decoded record
\* holds none of 0x0A, 0x0D and 0x1E, and the flag `last` is true exactly
\* when the record ended with 0x0D.
C20_RecordDecode ==
    pc = "recDecoded" =>
        /\ \A i \in FramingAfterTag :
               (FirstFramingAt(i) /\ recBytes[i] = 30) => recResult = Err("InvalidData")
        /\ recResult.ok =>
               LET end == 4 + Len(recResult.val.value)
               IN  /\ \A k \in 1..Len(recResult.val.value) :
                          recResult.val.value[k] \notin {10, 13, 30}
                   /\ recResult.val.field = SubSeq(recBytes, 1, 3)
                   /\ recResult.val.value = SubSeq(recBytes, 4, end - 1)
                   /\ recBytes[end] \in {10, 13}
                   /\ recResult.val.last <=> recBytes[end] = 13

\* A record separator was read after a byte of the value and before a
\* delimiter.
C20_Witness ==
    /\ pc = "recDecoded"
    /\ recBytes = <<65, 10, 30, 65, 30, 13>>
    /\ recResult = Err("InvalidData")

(***************************************************************************)
(* Claims about unknown tags.                                              *)
(***************************************************************************)
\* The tags of the mandatory and optional tables of a decoder.
KnownTags(k) ==
    LET M == IF k = "DL" THEN DlMandatoryElement ELSE IdMandatoryElement
        O == IF k = "DL" THEN DlOptionalElement ELSE IdOptionalElement
    IN  {M[i][2] : i \in 1..Len(M)} \cup {O[i][2] : i \in 1..Len(O)}

\* The type code of a decoder, "DL" or "ID".
OwnTypeCode(k) == IF k = "DL" THEN <<68, 76>> ELSE <<73, 68>>

\* The tags of the records that follow the type code, up to the terminator.
TagsOfEncoded == RecordTags(encoded, 3)

\* Every mandatory tag of the decoder occurs among the records.
AllMandatoryTagsOccur ==
    LET M == IF kind = "DL" THEN DlMandatoryElement ELSE IdMandatoryElement
    IN  \A i \in 1..Len(M) : \E j \in 1..Len(TagsOfEncoded) : TagsOfEncoded[j] = M[i][2]

\* C21: decoding a DL (resp. ID) subfile fails with InvalidData and returns
\* no subfile when the tag of a record is neither a mandatory nor an
\* optional tag of the DL (resp. ID) table, also when all mandatory
\* elements are present, and when the leading type code is not the
\* decoder's own.
C21_UnknownTags ==
    (pc \in {"decoded", "done"} /\ Len(encoded) >= 2) =>
        /\ SubSeq(encoded, 1, 2) # OwnTypeCode(kind) => decoded = Err("InvalidData")
        /\ (\E j \in 1..Len(TagsOfEncoded) : TagsOfEncoded[j] \notin KnownTags(kind))
               => decoded = Err("InvalidData")

\* A subfile with the decoder's type code, every mandatory tag and a last
\* record of an unknown tag was decoded.
C21_Witness ==
    /\ pc = "decoded"
    /\ SubSeq(encoded, 1, 2) = OwnTypeCode(kind)
    /\ AllMandatoryTagsOccur
    /\ TagsOfEncoded[Len(TagsOfEncoded)] \notin KnownTags(kind)
    /\ decoded = Err("InvalidData")

(***************************************************************************)
(* Claims about the header.                                                *)
(***************************************************************************)
\* The bytes i..j of the input are there and are all ASCII digits.
AllDigits(i, j) ==
    j <= Len(hdrBytes) /\ \A k \in i..j : hdrBytes[k] \in 48..57

\* The decimal value of the digits i..j of the input.
DecimalValue(i, j) ==
    LET w[k \in i..j] == (hdrBytes[k] - 48) * 10 ^ (j - k)
        sum[k \in (i - 1)..j] == IF k < i THEN 0 ELSE sum[k - 1] + w[k]
    IN  sum[j]

\* C22: Header::decode succeeds exactly when the input starts with the
\* 9-byte preamble followed by 12 ASCII digits, and then returns the issuer
\* id, version, jurisdiction version and entry count as the decimal values
\* of the 6 + 2 + 2 + 2 digits; a wrong preamble or a non-digit among the 12
\* bytes yields InvalidData, and so does a non-digit in the 4-digit offset
\* or length of a designator.
C22_HeaderValidation ==
    /\ pc = "headerDecoded" =>
        /\ hdrResult.ok <=> (Len(hdrBytes) >= 9 /\ SubSeq(hdrBytes, 1, 9) = PREFIX
                                /\ AllDigits(10, 21))
        /\ hdrResult.ok =>
               hdrResult.val.header =
                   [issuer_id |-> DecimalValue(10, 15), version |-> DecimalValue(16, 17),
                    jurisdiction_version |-> DecimalValue(18, 19),
                    entry_count |-> DecimalValue(20, 21)]
        /\ (Len(hdrBytes) >= 9 /\ SubSeq(hdrBytes, 1, 9) # PREFIX)
               => hdrResult = Err("InvalidData")
        /\ (Len(hdrBytes) >= 21 /\ ~AllDigits(10, 21)) => hdrResult = Err("InvalidData")
    /\ pc = "designatorDecoded" =>
        /\ (Len(hdrBytes) >= 10 /\ ~AllDigits(3, 10)) => hdrResult = Err("InvalidData")
        /\ hdrResult.ok =>
               hdrResult.val.designator =
                   [subfile_type |-> SubSeq(hdrBytes, 1, 2), offset |-> DecimalValue(3, 6),
                    length |-> DecimalValue(7, 10)]

\* A header with the preamble and a byte ":" among the 12 was decoded.
C22_Witness ==
    /\ pc = "headerDecoded"
    /\ Len(hdrBytes) = 21
    /\ SubSeq(hdrBytes, 1, 9) = PREFIX
    /\ hdrBytes[21] = 58
    /\ AllDigits(10, 20)
    /\ hdrResult = Err("InvalidData")

(***************************************************************************)
(* Claims about the layout of a written file.                              *)
(***************************************************************************)
\* The number written in the digits i..j of the file.
WrittenNumber(i, j) ==
    LET sum[k \in (i - 1)..j] == IF k < i THEN 0 ELSE sum[k - 1] * 10 + (fbytes[k] - 48)
    IN  sum[j]

\* The bytes the subfiles lo..hi of the builder take in the file, summed by
\* halves.
RECURSIVE LengthsOf(_, _)
LengthsOf(lo, hi) ==
    IF lo > hi THEN 0
    ELSE IF lo = hi THEN 2 + Len(fbuilder.subfiles[lo].data)
    ELSE LengthsOf(lo, (lo + hi) \div 2) + LengthsOf((lo + hi) \div 2 + 1, hi)

\* The bytes the subfiles before the i-th one take in the file.
LengthsBefore(i) == LengthsOf(1, i - 1)

\* The number of designator records in the file: what lies between the
\* header and the subfiles, in records of 10 bytes.
DesignatorsWritten ==
    (Len(fbytes) - 21 - LengthsBefore(Len(fbuilder.subfiles) + 1)) \div 10

\* The place of the first byte of the i-th designator (1-based).
DesignatorAt(i) == 22 + 10 * (i - 1)

\* C23: in the bytes written by FileBuilder::write, for any number of
\* pushed subfiles and any data lengths, the entry count of the header is
\* the number of designator records written, the offset of designator i is
\* the byte position at which the type code of subfile i starts, that is
\* 21 + 10 * N + the lengths of the subfiles before i, and the length of
\* designator i is 2 + the data length of subfile i.
C23_WriterLayout ==
    pc = "written" =>
        LET N == Len(fbuilder.subfiles)
        IN  /\ DesignatorsWritten = N
            /\ WrittenNumber(20, 21) = DesignatorsWritten
            /\ \A i \in 1..N :
                   LET offset == WrittenNumber(DesignatorAt(i) + 2, DesignatorAt(i) + 5)
                       length == WrittenNumber(DesignatorAt(i) + 6, DesignatorAt(i) + 9)
                   IN  /\ offset = 21 + 10 * N + LengthsBefore(i)
                       /\ SubSeq(fbytes, offset + 1, offset + 2)
                              = fbuilder.subfiles[i].subfile_type
                       /\ length = 2 + Len(fbuilder.subfiles[i].data)

(***************************************************************************)
(* Claims about reading subfiles by offset.                                *)
(***************************************************************************)
\* The file as File::new returned it, before any read.
FreshFile == FileNew(fbytes).val

\* The designators of the type the last read asked for.
DesignatorsOfReadType ==
    {i \in 1..Len(FreshFile.subfile_designators) :
        FreshFile.subfile_designators[i].subfile_type = TypeCodeOf(fread[2])}

\* C24: File::read_subfile(t) returns Ok(None) when no designator has type
\* t, and otherwise decodes from the offset of the first designator of type
\* t, wherever the reader stands; after File::new, reads in any order and
\* any number return the same result for a type and leave the header and
\* the designator table as they were.
C24_OffsetReads ==
    (pc \in {"parsed", "parsedScan"} /\ fread # <<>>) =>
        /\ file.val.header = FreshFile.header
        /\ file.val.subfile_designators = FreshFile.subfile_designators
        /\ DesignatorsOfReadType = {} =>
               fread[3].ok /\ fread[3].val.subfile = None
        /\ DesignatorsOfReadType # {} =>
               LET first == CHOOSE i \in DesignatorsOfReadType :
                                \A j \in DesignatorsOfReadType : i <= j
                   d == DecodeSubfile(fread[1], fbytes,
                                      FreshFile.subfile_designators[first].offset + 1)
               IN  /\ fread[3].ok <=> d.ok
                   /\ fread[3].ok => fread[3].val.subfile = Some(d.val.subfile)
                   /\ ~fread[3].ok => fread[3].err = d.err

\* A subfile was read when the reader no longer stood where File::new left
\* it.
C24_Witness ==
    /\ pc \in {"parsed", "parsedScan"}
    /\ fread # <<>>
    /\ fread[4] # FreshFile.reader
    /\ fread[3].ok
    /\ fread[3].val.subfile # None

(***************************************************************************)
(* Claims about the index as a set.                                        *)
(***************************************************************************)
\* The sum of 1 << (23 - rank(e)) over the elements of S.
RECURSIVE SumOfBits(_)
SumOfBits(S) ==
    IF S = {} THEN 0
    ELSE LET e == CHOOSE x \in S : TRUE
         IN  2 ^ (23 - TagPosition[e]) + SumOfBits(S \ {e})

\* C25: from ProtectedComponentIndex::new() and after any inserts and
\* removes, contains(e) is true exactly when the most recent call on e was
\* insert, whatever was called on the other elements; the integer is the
\* sum of 1 << (23 - rank(e)) over the contained elements, below 2^24 with
\* bits 0 and 1 clear; iter() yields exactly the contained elements in
\* ascending tag order.
C25_IndexSet ==
    pc = "index" =>
        LET it == PciIter(pcindex)
            tag(e) == IdOf(DlMandatoryElement, e)
        IN  /\ \A e \in Variants(DlMandatoryElement) :
                   PciContains(pcindex, e) <=> e \in inserted
            /\ pcindex = SumOfBits(inserted)
            /\ pcindex < 2 ^ 24
            /\ ~HasBit(pcindex, 1) /\ ~HasBit(pcindex, 2)
            /\ Len(it) = Cardinality(inserted)
            /\ {it[i] : i \in 1..Len(it)} = inserted
            /\ \A i, j \in 1..Len(it) : i < j => LexLess(tag(it[i]), tag(it[j]))

\* The index holds three elements, the first and the last of the tag order
\* among them.
C25_Witness ==
    /\ pc = "index"
    /\ Cardinality(inserted) = 3
    /\ \E e, f \in inserted : TagPosition[e] = 0 /\ TagPosition[f] = 21
    /\ TagPosition[PciIter(pcindex)[1]] = 0
    /\ TagPosition[PciIter(pcindex)[3]] = 21

(***************************************************************************)
(* Claims about the termination of decoding.                               *)
(***************************************************************************)
\* The source holds no segment terminator.
NoTerminatorInSource == \A i \in 1..Len(rdBytes) : rdBytes[i] # SEGMENT_TERMINATOR

\* C26: decoding a subfile (DlSubfile, IdSubfile, ZZSubfile, Record or
\* Vec<u8>) from a finite byte source terminates; a subfile is returned
\* only by the read of a segment terminator 0x0D, as a delimiter or as a
\* byte of a raw subfile, and when the source ends before a terminator is
\* read the result is an error and no subfile.
C26_DecodeTermination ==
    /\ <>(pc = "rdDone")
    /\ [](pc = "rdDone" =>
            /\ rdResult.ok => (rdPos > 1 /\ rdBytes[rdPos - 1] = SEGMENT_TERMINATOR)
            /\ NoTerminatorInSource => (~rdResult.ok /\ rdResult.val = <<>>)
            /\ (~rdResult.ok /\ rdPos > Len(rdBytes) /\ NoTerminatorInSource)
                   => rdResult.err \in {"UnexpectedEof", "InvalidData"})
    /\ [][(rdResult'.ok /\ ~rdResult.ok) =>
            (pc \in {"rdValue", "rdRaw"} /\ rdPos <= Len(rdBytes)
                /\ rdBytes[rdPos] = SEGMENT_TERMINATOR /\ rdPos' = rdPos + 1)]_vars

\* The scanned DL subfile cut short was read until a read met the end of
\* the source: the call ended with an error.
C26_Witness ==
    /\ pc = "rdDone"
    /\ rdDecoder = "DL"
    /\ rdBytes = SubSeq(DL_SUBFILE_BYTES, 1, 100)
    /\ rdPos > 90
    /\ rdResult = Err("UnexpectedEof")

(***************************************************************************)
(* Claims about the two sorts of the optical data.                         *)
(***************************************************************************)
\* The entries tag, value, 0x0A in the order iter() yields the elements.
EntriesInIterOrder ==
    LET fields == PciIter(pcindex)
    IN  [i \in 1..Len(fields) |->
            IdOf(DlMandatoryElement, fields[i]) \o elements[fields[i]] \o <<10>>]

\* C27: the entries to_optical_data_bytes builds in ascending tag order are
\* in ascending byte-string order already, every entry starting with a tag
\* of its own, so that the sort reorders nothing and the digest is the
\* digest of the entries concatenated in ascending tag order.
C27_SortsCoincide ==
    pc = "ixOptical" =>
        LET entries == EntriesInIterOrder
        IN  /\ \A i, j \in 1..Len(entries) :
                   i < j => /\ LexLess(entries[i], entries[j])
                            /\ SubSeq(entries[i], 1, 3) # SubSeq(entries[j], 1, 3)
            /\ SortUnstable(entries) = entries
            /\ optical = Sha256(Concat(entries))

\* The optical data of three elements was computed, the empty first name
\* and the family name 0xFF 0x00 among them.
C27_Witness ==
    /\ pc = "ixOptical"
    /\ Cardinality(inserted) = 3
    /\ {"CustomerFirstName", "CustomerFamilyName"} \subseteq inserted
    /\ elements["CustomerFirstName"] = <<>>
    /\ elements["CustomerFamilyName"] = <<255, 0>>
    /\ Len(EntriesInIterOrder) = 3

(***************************************************************************)
(* Claims about the payloads the QR decoder accepts.                       *)
(***************************************************************************)
\* C28: when decode_qr_code_payload(s) succeeds with bytes b,
\* encode_qr_code_payload(b) is s: only the encodings of byte strings are
\* accepted (a group of three digits above 65535, a trailing group of two
\* digits above 255, a lone trailing digit, a character outside the
\* alphabet, a missing "VC1-" and a base other than 'R' are rejected), so
\* no two payloads decode to the same bytes.
C28_CanonicalQrDecoding ==
    (pc \in {"qrDecoded", "qrDecodedScan"} /\ qrResult.ok) =>
        encode_qr_code_payload(qrResult.val) = qrPayload

(***************************************************************************)
(* Claims about the status gate.                                           *)
(***************************************************************************)
\* C29: for a credential with a credential-status entry,
\* verify_from_optical_data returns an error, never a successful
\* verification, when no status list client is configured, when the
\* provider fails or has no status at the index of the entry, and when the
\* purpose is revocation or suspension and the status is not zero; an entry
\* of a message list causes no rejection, whatever its value.
C29_StatusGate ==
    (pc \in {"verified", "verifiedAgain"} /\ vc.val.credential.credential_status # <<>>) =>
        LET c == vresult.status_list_client
            r == vresult.result
        IN  /\ c = None => r = Err("no status list parameters")
            /\ (c # None /\ c[1].err) => (~r.ok /\ r.err = "ProviderError")
            /\ (c # None /\ ~c[1].err /\ c[1].status = None) => r = Err("missing status")
            /\ (c # None /\ ~c[1].err /\ c[1].status # None
                   /\ c[1].purpose \in {"revocation", "suspension"} /\ c[1].status[1] # 0)
                   => (~r.ok /\ r.err \in {"revoked", "suspended"})
            /\ (c # None /\ ~c[1].err /\ c[1].status # None /\ c[1].purpose = "message")
                   => /\ r.ok
                      /\ shown = signedMrz => r = Ok(Ok(<<>>))

\* A credential with a status entry was shown with the MRZ it was signed
\* over to a verifier whose suspension list holds a status that is not
\* zero: the verification ended with an error.
C29_Witness ==
    /\ pc = "verified"
    /\ vc.val.credential.credential_status # <<>>
    /\ shown = signedMrz
    /\ vresult.status_list_client = Some([err |-> FALSE, purpose |-> "suspension", status |-> Some(1)])
    /\ vresult.result = Err("suspended")

(***************************************************************************)
(* Claims about records of the same tag.                                   *)
(***************************************************************************)
\* The records that follow the type code, up to the terminator or to the
\* first record that does not decode.
RECURSIVE RecordsFrom(_, _)
RecordsFrom(bytes, pos) ==
    LET e == RecordEntryDecode(bytes, pos)
    IN  IF ~e.ok THEN <<>>
        ELSE IF e.val.last THEN <<e.val>>
        ELSE <<e.val>> \o RecordsFrom(bytes, e.val.pos)

\* The records are those of a subfile of the decoder: behind its type
\* code, of known tags up to a terminator, every mandatory tag among them.
WellFormedRecords(recs) ==
    LET M == IF kind = "DL" THEN DlMandatoryElement ELSE IdMandatoryElement
        tags == {recs[i].field : i \in 1..Len(recs)}
    IN  /\ Len(encoded) >= 2
        /\ SubSeq(encoded, 1, 2) = OwnTypeCode(kind)
        /\ recs # <<>>
        /\ recs[Len(recs)].last
        /\ tags \subseteq KnownTags(kind)
        /\ \A i \in 1..Len(M) : M[i][2] \in tags

\* Two of the records have the same tag.
TagGivenTwice(recs) ==
    \E i, j \in 1..Len(recs) : i < j /\ recs[i].field = recs[j].field

\* C30: when a DL or ID subfile holds several records of the same tag,
\* decoding succeeds (all mandatory tags occurring), the decoded subfile
\* holds for that tag the value of the last such record, the earlier values
\* being dropped without error: the decoded subfile has at most one value
\* for a tag and fewer elements than the input had records.
C30_DuplicateTags ==
    pc \in {"decoded", "done"} =>
        LET recs == RecordsFrom(encoded, 3)
            held == DecodedRecords
        IN  (WellFormedRecords(recs) /\ TagGivenTwice(recs)) =>
                /\ decoded.ok
                /\ \A i \in 1..Len(recs) :
                       (\A j \in (i + 1)..Len(recs) : recs[j].field # recs[i].field)
                           => <<recs[i].field, recs[i].value>> \in held
                /\ \A r, q \in held : r[1] = q[1] => r = q
                /\ Cardinality(held) < Len(recs)
                /\ Cardinality(held) = Cardinality({recs[i].field : i \in 1..Len(recs)})

\* The scanned DL subfile that gives the first name twice, "X" and then
\* "JOHN", was decoded.
C30_Witness ==
    /\ pc = "decoded"
    /\ kind = "DL"
    /\ decoded.ok
    /\ decoded.val.subfile.mandatory["CustomerFirstName"] = <<74, 79, 72, 78>>
    /\ LET recs == RecordsFrom(encoded, 3)
       IN  /\ WellFormedRecords(recs)
           /\ recs[1].field = <<68, 65, 67>>
           /\ recs[1].value = <<88>>
           /\ \E i \in 2..Len(recs) :
                  recs[i].field = <<68, 65, 67>> /\ recs[i].value = <<74, 79, 72, 78>>

====
